---------------------------- MODULE Spec2Model ----------------------------
(***************************************************************************)
(* Agent Switchboard: the request -> plan -> approval -> execution         *)
(* lifecycle of apps/server (routes.ts, the builtin effectors, the         *)
(* DatabaseStorage), as a state machine.                                   *)
(*                                                                         *)
(* Handlers are async functions over a Promise-based store (IStorage).     *)
(* One action of the model is one store operation of a handler together    *)
(* with the synchronous code that follows it up to the next await.         *)
(* Spec runs one handler at a time (one server process on the synchronous  *)
(* SQLite driver); SpecConc lets a second handler run while the first is   *)
(* suspended at a store call.                                              *)
(*                                                                         *)
(* JavaScript values are tagged records [t, v]; objects keep their keys in *)
(* insertion order.  Strings are TLA+ strings, so canonicalJson and the    *)
(* hashes are computed as strings.  sha256 is modelled as an injective     *)
(* function of its input string (no collisions).                           *)
(***************************************************************************)
EXTENDS Naturals, Sequences, FiniteSets, TLC

\* ------------------------------------------------------------------ bounds
MaxRequests == 1
MaxPlans == 2
MaxApprovals == 2
MaxReceipts == 1
MaxTampers == 1
MaxSettingUpdates == 1
MaxCapabilityUpdates == 1
NumProcs == 2

\* ------------------------------------------------------------ JS values
Undefined == [t |-> "undefined", v |-> ""]
Null == [t |-> "null", v |-> ""]
Str(s) == [t |-> "string", v |-> s]
Num(n) == [t |-> "number", v |-> n]
Bool(b) == [t |-> "boolean", v |-> b]
Arr(elems) == [t |-> "array", v |-> elems]
Obj(pairs) == [t |-> "object", v |-> pairs]

KeySet(o) == {o.v[i][1] : i \in 1..Len(o.v)}
HasKey(o, k) == k \in KeySet(o)
Get(o, k) ==
    IF o.t = "object" /\ HasKey(o, k)
    THEN o.v[CHOOSE i \in 1..Len(o.v) : o.v[i][1] = k][2]
    ELSE Undefined
\* o[k] = val: an existing key keeps its position, a new key is appended.
Put(o, k, val) ==
    IF HasKey(o, k)
    THEN Obj([i \in 1..Len(o.v) |-> IF o.v[i][1] = k THEN <<k, val>> ELSE o.v[i]])
    ELSE Obj(Append(o.v, <<k, val>>))

\* const val = ...; B: the value is computed once and named in B.
Let(val, B(_)) == B(val)

Falsy(x) ==
    \/ x.t \in {"undefined", "null"}
    \/ x.t = "string" /\ x.v = ""
    \/ x.t = "number" /\ x.v = 0
    \/ x.t = "boolean" /\ x.v = FALSE
Truthy(x) == ~Falsy(x)

\* Every property name the handlers and effectors write, in the order
\* Array.prototype.sort() gives them (UTF-16 code units).
KeyOrder ==
    << "agentId", "agentsAffected", "approvedBy", "args", "command", "content",
       "cwd", "data", "decision", "description", "destination", "diff",
       "domains", "enabled", "eventType", "fileCount", "from", "inputs", "key",
       "message", "name", "operation", "params", "path", "planId", "preview",
       "purpose", "receiptId", "requestId", "riskFlags", "riskScore",
       "severity", "status", "stepId", "timestamp", "to", "triggeredBy", "type",
       "userId", "username" >>

\* Object.keys(o) as it is, in insertion order.
insertionKeys(o) == [i \in 1..Len(o.v) |-> o.v[i][1]]

\* Object.keys(o).sort()
SortedKeys(o) == SelectSeq(KeyOrder, LAMBDA k : k \in KeySet(o))

\* JSON.stringify of a string: the quotes around it (the strings of the model
\* hold no character that JSON escapes, but for the quotes of one preview
\* text, which are kept as they are).
Quote(s) == "\"" \o s \o "\""

\* JSON.stringify of a scalar; of undefined it is the value undefined.
JsonStringifyScalar(x) ==
    CASE x.t = "undefined" -> Undefined
      [] x.t = "null" -> Str("null")
      [] x.t = "string" -> Str(Quote(x.v))
      [] x.t = "number" -> Str(ToString(x.v))
      [] x.t = "boolean" -> Str(IF x.v THEN "true" ELSE "false")

\* `${x}`: a template literal prints the value undefined as "undefined".
TemplateString(x) == IF x.t = "undefined" THEN "undefined" ELSE x.v
\* Array.prototype.join prints undefined and null elements as "".
JoinString(x) == IF x.t \in {"undefined", "null"} THEN "" ELSE x.v

RECURSIVE JoinComma(_)
JoinComma(strs) ==
    IF Len(strs) = 0 THEN ""
    ELSE IF Len(strs) = 1 THEN strs[1]
    ELSE strs[1] \o "," \o JoinComma(Tail(strs))

RECURSIVE canonicalJson(_)
canonicalJson(obj) ==
    IF obj.t \notin {"array", "object"} THEN JsonStringifyScalar(obj)
    ELSE IF obj.t = "array"
    THEN Str("[" \o JoinComma([i \in 1..Len(obj.v) |->
                                  JoinString(canonicalJson(obj.v[i]))]) \o "]")
    ELSE LET sortedKeys == SortedKeys(obj)
             parts == [i \in 1..Len(sortedKeys) |->
                          Quote(sortedKeys[i]) \o ":" \o
                          TemplateString(canonicalJson(Get(obj, sortedKeys[i])))]
         IN  Str("{" \o JoinComma(parts) \o "}")

computeHash(data) == "sha256(" \o data \o ")"

\* What a value is after the store wrote it with JSON.stringify and read it
\* back with JSON.parse (a `text` column in json mode): an object loses the
\* keys whose value is undefined, an array turns undefined into null.
RECURSIVE JsonRoundTrip(_)
JsonRoundTrip(x) ==
    CASE x.t = "array" ->
            Arr([i \in 1..Len(x.v) |->
                    IF x.v[i].t = "undefined" THEN Null ELSE JsonRoundTrip(x.v[i])])
      [] x.t = "object" ->
            LET kept == SelectSeq(x.v, LAMBDA kv : kv[2].t # "undefined")
            IN  Obj([i \in 1..Len(kept) |-> <<kept[i][1], JsonRoundTrip(kept[i][2])>>])
      [] OTHER -> x


\* ------------------------------------------------- strings as characters
\* The string literals whose characters the code inspects (startsWith,
\* endsWith, includes, split, RegExp), with their characters.
Chars(s) ==
    CASE s = "/s" -> <<"/", "s">>
      [] s = "/s/x" -> <<"/", "s", "/", "x">>
      [] s = "/s/y" -> <<"/", "s", "/", "y">>
      [] s = "/e/p" -> <<"/", "e", "/", "p">>
      [] s = "/s/../e/p" -> <<"/", "s", "/", ".", ".", "/", "e", "/", "p">>
      [] s = "/s2/y" -> <<"/", "s", "2", "/", "y">>
      [] s = "/app" -> <<"/", "a", "p", "p">>
      [] s = "ls" -> <<"l", "s">>
      [] s = "rm" -> <<"r", "m">>
      [] s = "lsblk" -> <<"l", "s", "b", "l", "k">>
      [] s = "ls/rm" -> <<"l", "s", "/", "r", "m">>
      [] s = "cat" -> <<"c", "a", "t">>
      [] s = "head" -> <<"h", "e", "a", "d">>
      [] s = "tail" -> <<"t", "a", "i", "l">>
      [] s = "echo" -> <<"e", "c", "h", "o">>
      [] s = "pwd" -> <<"p", "w", "d">>
      [] s = "whoami" -> <<"w", "h", "o", "a", "m", "i">>
      [] s = "date" -> <<"d", "a", "t", "e">>
      [] s = "-rf" -> <<"-", "r", "f">>
      [] s = "^ls" -> <<"^", "l", "s">>
      [] s = "^cat" -> <<"^", "c", "a", "t">>
      [] s = "^echo" -> <<"^", "e", "c", "h", "o">>
      [] s = "^pwd" -> <<"^", "p", "w", "d">>
      [] s = "a.ru" -> <<"a", ".", "r", "u">>
      [] s = "sudo" -> <<"s", "u", "d", "o">>
      [] s = "chmod 777" -> <<"c", "h", "m", "o", "d", " ", "7", "7", "7">>
      [] s = "curl" -> <<"c", "u", "r", "l">>
      [] s = "wget" -> <<"w", "g", "e", "t">>
      [] s = "sh" -> <<"s", "h">>
      [] s = "/." -> <<"/", ".">>
      [] s = ".env" -> <<".", "e", "n", "v">>
      [] s = ".key" -> <<".", "k", "e", "y">>
      [] s = ".pem" -> <<".", "p", "e", "m">>
      [] s = ".p12" -> <<".", "p", "1", "2">>
      [] s = ".sqlite" -> <<".", "s", "q", "l", "i", "t", "e">>
      [] s = ".db" -> <<".", "d", "b">>
      [] s = ".secret" -> <<".", "s", "e", "c", "r", "e", "t">>
      [] s = ".credentials" ->
            <<".", "c", "r", "e", "d", "e", "n", "t", "i", "a", "l", "s">>
      [] s = "/.zshrc" -> <<"/", ".", "z", "s", "h", "r", "c">>
      [] s = "/.bashrc" -> <<"/", ".", "b", "a", "s", "h", "r", "c">>
      [] s = "/.bash_profile" ->
            <<"/", ".", "b", "a", "s", "h", "_", "p", "r", "o", "f", "i", "l", "e">>
      [] s = "/.profile" -> <<"/", ".", "p", "r", "o", "f", "i", "l", "e">>
      [] s = "/.ssh/config" ->
            <<"/", ".", "s", "s", "h", "/", "c", "o", "n", "f", "i", "g">>
      [] s = "/.ssh/authorized_keys" ->
            <<"/", ".", "s", "s", "h", "/", "a", "u", "t", "h", "o", "r", "i", "z",
              "e", "d", "_", "k", "e", "y", "s">>
      [] s = ".ru" -> <<".", "r", "u">>
      [] s = ".cn" -> <<".", "c", "n">>
      [] s = ".top" -> <<".", "t", "o", "p">>
      [] s = ".xyz" -> <<".", "x", "y", "z">>
      [] s = ".tk" -> <<".", "t", "k">>
      [] s = ".pw" -> <<".", "p", "w">>
      [] s = ".cc" -> <<".", "c", "c">>
      [] s = "/s/a.env" -> <<"/", "s", "/", "a", ".", "e", "n", "v">>
      [] s = "/h/.bashrc" -> <<"/", "h", "/", ".", "b", "a", "s", "h", "r", "c">>
      [] s = "|" -> <<"|">>
      [] s = ">" -> <<">">>
      [] s = "x" -> <<"x">>
      [] s = "u" -> <<"u">>
      [] s = "1.2.3.4" -> <<"1", ".", "2", ".", "3", ".", "4">>
      [] s = "b.cn" -> <<"b", ".", "c", "n">>
      [] s = "" -> <<>>

startsWith(cs, prefix) ==
    Len(prefix) <= Len(cs) /\ SubSeq(cs, 1, Len(prefix)) = prefix
endsWith(cs, suffix) ==
    Len(suffix) <= Len(cs) /\ SubSeq(cs, Len(cs) - Len(suffix) + 1, Len(cs)) = suffix
includes(cs, sub) ==
    \E i \in 1..(Len(cs) + 1) :
        i + Len(sub) - 1 <= Len(cs) /\ SubSeq(cs, i, i + Len(sub) - 1) = sub

UpperCase == {"E", "N", "V", "R", "M"}
toLowerCaseChar(c) ==
    CASE c = "E" -> "e" [] c = "N" -> "n" [] c = "V" -> "v"
      [] c = "R" -> "r" [] c = "M" -> "m" [] OTHER -> c
toLowerCase(cs) == [i \in 1..Len(cs) |-> toLowerCaseChar(cs[i])]

\* s.split("/"): the segments between the separators.
RECURSIVE SplitSlash(_, _)
SplitSlash(cs, cur) ==
    IF Len(cs) = 0 THEN <<cur>>
    ELSE IF Head(cs) = "/" THEN <<cur>> \o SplitSlash(Tail(cs), <<>>)
    ELSE SplitSlash(Tail(cs), Append(cur, Head(cs)))

\* path.resolve normalises the segments: "" and "." are dropped, ".." removes
\* the segment before it.
RECURSIVE NormalizeSegments(_, _)
NormalizeSegments(segs, acc) ==
    IF Len(segs) = 0 THEN acc
    ELSE LET sg == Head(segs) IN
         IF sg = <<>> \/ sg = <<".">> THEN NormalizeSegments(Tail(segs), acc)
         ELSE IF sg = <<".", ".">>
         THEN NormalizeSegments(Tail(segs),
                 IF Len(acc) = 0 THEN acc ELSE SubSeq(acc, 1, Len(acc) - 1))
         ELSE NormalizeSegments(Tail(segs), Append(acc, sg))

RECURSIVE JoinSlash(_)
JoinSlash(segs) ==
    IF Len(segs) = 0 THEN <<>> ELSE <<"/">> \o Head(segs) \o JoinSlash(Tail(segs))

\* process.cwd() of the server.
ProcessCwd == "/app"

\* path.resolve(p) of a string p, as characters: a relative path is taken
\* from the working directory.
absolute(cs) ==
    IF Len(cs) > 0 /\ cs[1] = "/" THEN cs ELSE Chars(ProcessCwd) \o <<"/">> \o cs

resolve(p) ==
    Let(NormalizeSegments(SplitSlash(absolute(Chars(p)), <<>>), <<>>),
        LAMBDA segs : IF Len(segs) = 0 THEN <<"/">> ELSE JoinSlash(segs))

\* filesystem.ts isPathAllowed; allowedRoots is a sequence of strings.
isPathAllowed(filePath, allowedRoots) ==
    \E i \in 1..Len(allowedRoots) :
        startsWith(resolve(filePath), resolve(allowedRoots[i]))

\* ------------------------------------------------------- risk scoring
SENSITIVE_EXTENSIONS ==
    <<".env", ".key", ".pem", ".p12", ".sqlite", ".db", ".secret", ".credentials">>
SHELL_PROFILES ==
    <<"/.zshrc", "/.bashrc", "/.bash_profile", "/.profile", "/.ssh/config",
      "/.ssh/authorized_keys">>
SUSPICIOUS_TLDS == <<".ru", ".cn", ".top", ".xyz", ".tk", ".pw", ".cc">>

Digits == {"0", "1", "2", "3", "4", "5", "6", "7", "8", "9"}
WordChars ==
    Digits \cup UpperCase \cup
    {"a", "b", "c", "d", "e", "f", "g", "h", "i", "j", "k", "l", "m", "n", "o",
     "p", "q", "r", "s", "t", "u", "v", "w", "x", "y", "z", "_"}

\* x || dflt for a string-valued x, as characters.
CharsOr(x, dflt) == IF Truthy(x) THEN Chars(x.v) ELSE Chars(dflt)

RECURSIVE JoinSpace(_)
JoinSpace(strs) ==
    IF Len(strs) = 0 THEN <<>>
    ELSE IF Len(strs) = 1 THEN Chars(strs[1].v)
    ELSE Chars(strs[1].v) \o <<" ">> \o JoinSpace(Tail(strs))

\* /\brm\b/.test(cs)
MatchesWordRm(cs) ==
    \E i \in 1..Len(cs) :
        /\ i + 1 <= Len(cs)
        /\ cs[i] = "r" /\ cs[i + 1] = "m"
        /\ (i = 1 \/ cs[i - 1] \notin WordChars)
        /\ (i + 1 = Len(cs) \/ cs[i + 2] \notin WordChars)

\* /tool.*\|.*sh/.test(cs) for tool = curl, wget
MatchesPipeSh(cs, tool) ==
    \E i, j, k \in 1..Len(cs) :
        /\ i + Len(tool) - 1 <= Len(cs)
        /\ SubSeq(cs, i, i + Len(tool) - 1) = tool
        /\ j >= i + Len(tool) /\ cs[j] = "|"
        /\ k > j /\ k + 1 <= Len(cs) /\ cs[k] = "s" /\ cs[k + 1] = "h"

\* /^\d+\.\d+\.\d+\.\d+/.test(cs): n groups of digits separated by dots.
RECURSIVE MatchesDigitGroups(_, _, _)
MatchesDigitGroups(cs, n, inGroup) ==
    IF Len(cs) = 0 THEN n = 1 /\ inGroup
    ELSE IF Head(cs) \in Digits THEN
            \/ n = 1
            \/ MatchesDigitGroups(Tail(cs), n, TRUE)
    ELSE IF Head(cs) = "." /\ inGroup /\ n > 1
    THEN MatchesDigitGroups(Tail(cs), n - 1, FALSE)
    ELSE FALSE

IpGroups == 4
\* strs.some(s => text.endsWith(s)) and strs.some(s => text.includes(s)).
someEndsWith(strs, text) == \E i \in 1..Len(strs) : endsWith(text, Chars(strs[i]))

someIncludes(strs, text) == \E i \in 1..Len(strs) : includes(text, Chars(strs[i]))

\* A rule is <<fired, points, flag>>: score += points; flags.push(flag).
RECURSIVE SumScores(_)
SumScores(rules) ==
    IF Len(rules) = 0 THEN 0
    ELSE (IF Head(rules)[1] THEN Head(rules)[2] ELSE 0) + SumScores(Tail(rules))
RECURSIVE FlagsOf(_)
FlagsOf(rules) ==
    IF Len(rules) = 0 THEN <<>>
    ELSE (IF Head(rules)[1] THEN <<Str(Head(rules)[3])>> ELSE <<>>)
         \o FlagsOf(Tail(rules))

\* for (const domain of domains): the two rules of each domain, in order.
RECURSIVE DomainRules(_)
DomainRules(domains) ==
    IF Len(domains) = 0 THEN <<>>
    ELSE Let(toLowerCase(Chars(Head(domains).v)), LAMBDA d :
           << <<MatchesDigitGroups(d, IpGroups, FALSE), 25, "ip_literal">>,
              <<someEndsWith(SUSPICIOUS_TLDS, d), 20,
                "suspicious_tld">> >>)
         \o DomainRules(Tail(domains))

Min(a, b) == IF a < b THEN a ELSE b
Max(a, b) == IF a > b THEN a ELSE b

\* The score and the flags of the rules that fired, in the order of the code.
Risk(base, rules) ==
    [score |-> base + SumScores(rules), flags |-> FlagsOf(rules)]

\* (step.inputs.command + " " + (step.inputs.args || []).join(" ")).toLowerCase()
shellCmd(inputs) ==
    toLowerCase(Chars(TemplateString(Get(inputs, "command"))) \o <<" ">>
                \o JoinSpace(IF Truthy(Get(inputs, "args"))
                             THEN Get(inputs, "args").v ELSE <<>>))

\* risk-scoring.ts calculateStepRiskScore: [score, flags] of a step object.
stepRisk(type, inputs) ==
    CASE type = "FS_READ" ->
           Let(toLowerCase(CharsOr(Get(inputs, "path"), "")), LAMBDA path :
             Risk(5, << <<someEndsWith(SENSITIVE_EXTENSIONS, path),
                          40, "potential_secret_file">> >>))
      [] type = "FS_WRITE" ->
           Let(CharsOr(Get(inputs, "path"), ""), LAMBDA path :
             Risk(20, << <<someIncludes(SHELL_PROFILES, path),
                           60, "shell_profile_modification">>,
                         <<includes(path, <<"/", ".">>), 15, "dotfile_modification">> >>))
      [] type = "FS_DELETE" ->
           Let(Get(inputs, "fileCount"), LAMBDA fc :
             Risk(55, << <<(IF Truthy(fc) THEN fc.v ELSE 1) > 10, 20, "bulk_delete">> >>))
      [] type = "FS_MOVE" -> Risk(25, <<>>)
      [] type = "FS_LIST" -> Risk(2, <<>>)
      [] type = "SHELL_RUN" ->
           Let(shellCmd(inputs), LAMBDA cmd :
             Risk(35, << <<includes(cmd, <<"s", "u", "d", "o">>), 45, "sudo">>,
                         <<MatchesWordRm(cmd), 30, "rm">>,
                         <<includes(cmd, <<">">>), 15, "redirection">>,
                         <<includes(cmd, <<"|">>), 15, "pipe">>,
                         <<\/ MatchesPipeSh(cmd, <<"c", "u", "r", "l">>)
                           \/ MatchesPipeSh(cmd, <<"w", "g", "e", "t">>),
                           50, "curl_pipe_sh">>,
                         <<includes(cmd, <<"c", "h", "m", "o", "d", " ", "7", "7", "7">>),
                           40, "chmod_risky">> >>))
      [] type = "NET_ALLOW" ->
           Let(Get(inputs, "domains"), LAMBDA ds :
             Risk(15, DomainRules(IF Truthy(ds) THEN ds.v ELSE <<>>)))
      [] OTHER -> Risk(10, <<>>)

\* The score as the rules add it up, with no cap.
uncappedStepRiskScore(step) ==
    Let(stepRisk(Get(step, "type").v, Get(step, "inputs")),
        LAMBDA raw : [score |-> raw.score, flags |-> raw.flags])

calculateStepRiskScore(step) ==
    Let(stepRisk(Get(step, "type").v, Get(step, "inputs")),
        LAMBDA raw : [score |-> Min(100, raw.score), flags |-> raw.flags])

RECURSIVE SumSeq(_)
SumSeq(ns) == IF Len(ns) = 0 THEN 0 ELSE Head(ns) + SumSeq(Tail(ns))
RECURSIVE MaxSeq(_)
MaxSeq(ns) == IF Len(ns) = 1 THEN Head(ns) ELSE Max(Head(ns), MaxSeq(Tail(ns)))

\* Math.round(maxScore * 0.6 + avgScore * 0.4) is floor(x + 1/2) with
\* x = (6 * max * n + 4 * sum) / (10 * n), computed in integers; then the
\* ten points of a bulk_delete or curl_pipe_sh flag, and the clamp to 0..100.
\* A total that is the highest step score.
maxStepScore(allScores, flagged) == MaxSeq(allScores)

totalRiskScore(allScores, flagged) ==
    Let(Len(allScores), LAMBDA n :
        Min(100, Max(0, (2 * (6 * MaxSeq(allScores) * n + 4 * SumSeq(allScores))
                         + 10 * n) \div (20 * n)
                        + (IF flagged THEN 10 ELSE 0))))

\* risk-scoring.ts calculatePlanRiskScore, the totalRiskScore of the summary.
calculatePlanRiskScore(steps) ==
    IF Len(steps) = 0 THEN 0
    ELSE Let([i \in 1..Len(steps) |-> calculateStepRiskScore(steps[i])],
             LAMBDA stepScores :
               totalRiskScore(
                 [i \in 1..Len(stepScores) |-> stepScores[i].score],
                 \E i \in 1..Len(stepScores) : \E j \in 1..Len(stepScores[i].flags) :
                     stepScores[i].flags[j].v \in {"bulk_delete", "curl_pipe_sh"}))

\* allScores.filter(...).length for the three bands.
riskLevels(allScores) ==
    [high |-> Cardinality({i \in 1..Len(allScores) : allScores[i] >= 70}),
     medium |-> Cardinality({i \in 1..Len(allScores) :
                                allScores[i] >= 30 /\ allScores[i] < 70}),
     low |-> Cardinality({i \in 1..Len(allScores) : allScores[i] < 30})]

\* The RiskSummary calculatePlanRiskScore returns, without flagsTop.
RiskSummary(steps) ==
    Let(riskLevels([i \in 1..Len(steps) |-> calculateStepRiskScore(steps[i]).score]),
        LAMBDA levels :
          [totalRiskScore |-> calculatePlanRiskScore(steps),
           high |-> levels.high, medium |-> levels.medium, low |-> levels.low])

\* ------------------------------------------------------------ effectors
\* The plugin context: allowedRoots and shellAllowList are sequences of
\* strings, safeModeEnabled a boolean.
\*
\* The filesystem is a function from the resolved path of each existing file
\* to its content; Dirs are the directories, which the model never changes.
Dirs == {Chars("/s"), <<"/", "e">>, <<"/", "s", "2">>, Chars("/app")}

existsSync(fsys, path) == resolve(path) \in DOMAIN fsys \cup Dirs
dirname(cs) ==
    Let(NormalizeSegments(SplitSlash(cs, <<>>), <<>>),
        LAMBDA segs : IF Len(segs) <= 1 THEN <<"/">>
                      ELSE JoinSlash(SubSeq(segs, 1, Len(segs) - 1)))

RECURSIVE JoinWith(_, _)
JoinWith(strs, sep) ==
    IF Len(strs) = 0 THEN ""
    ELSE IF Len(strs) = 1 THEN JoinString(strs[1])
    ELSE JoinString(strs[1]) \o sep \o JoinWith(Tail(strs), sep)

\* step.riskScore = score; step.riskFlags = flags
Annotate(step) ==
    Let(calculateStepRiskScore(step), LAMBDA r :
        Put(Put(step, "riskScore", Num(r.score)), "riskFlags", Arr(r.flags)))

VALID_OPERATIONS == {"read", "write", "delete", "list", "move"}
DESTRUCTIVE_OPERATIONS == {"write", "delete", "move"}

filesystem_validateRequest(input) ==
    LET op == Get(input, "operation")
        opError == \/ Falsy(op) \/ op.t # "string"
                   \/ op.v \notin VALID_OPERATIONS
        pathError == Falsy(Get(input, "path")) /\ op # Str("list")
    IN  [valid |-> ~opError /\ ~pathError,
         normalizedRequest |->
            Obj(<< <<"operation", op>>,
                   <<"path", Get(input, "path")>>,
                   <<"content", Get(input, "content")>>,
                   <<"destination", Get(input, "destination")>> >>)]

filesystem_dryRun(ctx, normalizedRequest, fsys, uuid) ==
    LET operation == Get(normalizedRequest, "operation")
        path == Get(normalizedRequest, "path")
        content == Get(normalizedRequest, "content")
        destination == Get(normalizedRequest, "destination")
        step(type, description, extra) ==
            Obj(<< <<"stepId", Str(uuid)>>, <<"type", Str(type)>>,
                   <<"description", Str(description)>>,
                   <<"inputs", normalizedRequest>> >> \o extra)
    IN
    IF ctx.safeModeEnabled /\ operation.v \in DESTRUCTIVE_OPERATIONS
    THEN [threw |-> FALSE,
          steps |-> << step("FS_WRITE",
                            "BLOCKED (Safe Mode): " \o TemplateString(operation)
                               \o " on " \o TemplateString(path),
                            << <<"preview", Str("Operation blocked by Safe Mode")>>,
                               <<"riskFlags", Arr(<<Str("safe_mode_blocked")>>)>>,
                               <<"riskScore", Num(0)>> >>) >>]
    ELSE IF path.t # "string"
    \* path.resolve(undefined) throws a TypeError
    THEN [threw |-> TRUE, steps |-> <<>>]
    ELSE IF ~isPathAllowed(path.v, ctx.allowedRoots)
    THEN [threw |-> FALSE,
          steps |-> << step("FS_READ", "Path not allowed: " \o path.v,
                            << <<"preview", Str("Path " \o path.v
                                                \o " is outside allowed roots")>>,
                               <<"riskFlags", Arr(<<Str("path_denied")>>)>>,
                               <<"riskScore", Num(50)>> >>) >>]
    ELSE
    LET exists == existsSync(fsys, path.v)
        isFile == resolve(path.v) \in DOMAIN fsys
        made ==
          CASE operation.v = "read" ->
                 step("FS_READ", "Read file: " \o path.v,
                      << <<"preview", Str(IF exists THEN "File exists (n bytes)"
                                          ELSE "File does not exist")>>,
                         <<"riskFlags", Arr(<<>>)>> >>)
            [] operation.v = "write" ->
                 step("FS_WRITE", "Write file: " \o path.v,
                      << <<"diff", Str("patch(" \o (IF isFile THEN fsys[resolve(path.v)]
                                                    ELSE "")
                                       \o " -> "
                                       \o (IF Truthy(content) THEN content.v ELSE "")
                                       \o ")")>>,
                         <<"riskFlags", Arr(<<>>)>> >>)
            [] operation.v = "delete" ->
                 step("FS_DELETE", "Delete file: " \o path.v,
                      << <<"preview", Str(IF exists THEN "Will delete " \o path.v
                                          ELSE "File does not exist")>>,
                         <<"riskFlags", Arr(<<>>)>> >>)
            [] operation.v = "move" ->
                 step("FS_MOVE",
                      "Move " \o path.v \o " to " \o TemplateString(destination),
                      << <<"preview", Str("Move from " \o path.v \o " to "
                                          \o TemplateString(destination))>>,
                         <<"riskFlags", Arr(<<>>)>> >>)
            [] operation.v = "list" ->
                 step("FS_LIST", "List directory: " \o path.v,
                      << <<"preview", Str(IF exists THEN "Directory exists"
                                          ELSE "Directory does not exist")>>,
                         <<"riskFlags", Arr(<<>>)>> >>)
    IN  [threw |-> FALSE, steps |-> <<Annotate(made)>>]

\* The file reads of filesystem_dryRun (readFileSync for the diff of a write).
filesystem_dryRunEffects(ctx, normalizedRequest, fsys) ==
    LET operation == Get(normalizedRequest, "operation")
        path == Get(normalizedRequest, "path")
    IN  IF /\ ~(ctx.safeModeEnabled /\ operation.v \in DESTRUCTIVE_OPERATIONS)
           /\ path.t = "string"
           /\ isPathAllowed(path.v, ctx.allowedRoots)
           /\ operation.v = "write"
           /\ resolve(path.v) \in DOMAIN fsys
        THEN {[kind |-> "read", target |-> resolve(path.v), by |-> "dryRun"]}
        ELSE {}

\* An effector that never looks at safe mode.
neverBlocks(ctx, operation) == FALSE

\* ctx.safeModeEnabled && DESTRUCTIVE_OPERATIONS.includes(operation)
filesystem_safeModeBlocks(ctx, operation) ==
    /\ ctx.safeModeEnabled
    /\ operation.t = "string"
    /\ operation.v \in DESTRUCTIVE_OPERATIONS

\* One step of filesystem execute: the result and the filesystem after it.
filesystem_executeStep(ctx, step, fsys) ==
    LET inputs == Get(step, "inputs")
        operation == Get(inputs, "operation")
        path == Get(inputs, "path")
        content == Get(inputs, "content")
        destination == Get(inputs, "destination")
        stepId == Get(step, "stepId").v
        res(status, output) == [stepId |-> stepId, status |-> status, output |-> output]
        out(status, output, fs2, eff) ==
            [result |-> res(status, output), fsys |-> fs2, effects |-> eff]
        eff(kind, target) == {[kind |-> kind, target |-> target, by |-> "execute"]}
        src == resolve(path.v)
    IN
    IF filesystem_safeModeBlocks(ctx, operation)
    THEN out("blocked", "Safe Mode enabled - destructive operations blocked", fsys, {})
    ELSE IF operation.t # "string" \/ operation.v \notin VALID_OPERATIONS
    \* no case of the switch: nothing is pushed for this step
    THEN [result |-> res("none", ""), fsys |-> fsys, effects |-> {}]
    ELSE IF path.t # "string"
    THEN out("failed", "TypeError", fsys, {})
    ELSE
      CASE operation.v = "read" ->
             IF src \in DOMAIN fsys
             THEN out("success", fsys[src], fsys, eff("read", src))
             ELSE out("failed", "ENOENT", fsys, {})
        [] operation.v = "write" ->
             IF src \notin Dirs /\ dirname(src) \in Dirs
             THEN out("success", "File written",
                      [q \in DOMAIN fsys \cup {src} |->
                          IF q = src THEN (IF Truthy(content) THEN content.v ELSE "")
                          ELSE fsys[q]],
                      eff("write", src))
             ELSE out("failed", "ENOENT", fsys, {})
        [] operation.v = "delete" ->
             IF src \in DOMAIN fsys
             THEN out("success", "File deleted",
                      [q \in DOMAIN fsys \ {src} |-> fsys[q]], eff("delete", src))
             ELSE out("failed", "ENOENT", fsys, {})
        [] operation.v = "move" ->
             IF destination.t = "string" /\ src \in DOMAIN fsys
                /\ resolve(destination.v) \notin Dirs
                /\ dirname(resolve(destination.v)) \in Dirs
             THEN LET dst == resolve(destination.v) IN
                  out("success", "File moved",
                      [q \in (DOMAIN fsys \ {src}) \cup {dst} |->
                          IF q = dst THEN fsys[src] ELSE fsys[q]],
                      eff("move", dst))
             ELSE out("failed", "ENOENT", fsys, {})
        [] operation.v = "list" ->
             IF src \in Dirs
             THEN out("success", "listing", fsys, eff("list", src))
             ELSE out("failed", "ENOTDIR", fsys, {})

\* filesystem execute: the steps in order, each on the filesystem the
\* previous one left.
RECURSIVE filesystem_execute(_, _, _)
filesystem_execute(ctx, approvedPlan, fsys) ==
    IF Len(approvedPlan) = 0
    THEN [results |-> <<>>, fsys |-> fsys, effects |-> {}]
    ELSE Let(filesystem_executeStep(ctx, Head(approvedPlan), fsys), LAMBDA one :
         Let(filesystem_execute(ctx, Tail(approvedPlan), one.fsys), LAMBDA rest :
             [results |-> (IF one.result.status = "none" THEN <<>>
                           ELSE <<one.result>>) \o rest.results,
              fsys |-> rest.fsys,
              effects |-> one.effects \cup rest.effects]))

\* new RegExp(pattern).test(cs) for the patterns of the allowlist: a literal,
\* anchored at the start when it begins with "^".
RegExpTest(pattern, cs) ==
    LET pc == Chars(pattern) IN
    IF Len(pc) > 0 /\ pc[1] = "^" THEN startsWith(cs, Tail(pc)) ELSE includes(cs, pc)

\* [command, ...args].join(" "), as characters
fullCommandOf(inputs) ==
    JoinSpace(<<Get(inputs, "command")>> \o Get(inputs, "args").v)

\* shell.ts dryRun: ctx.shellAllowList.some(pattern => regex.test(fullCommand))
shell_isAllowed(shellAllowList, fullCommand) ==
    \E i \in 1..Len(shellAllowList) : RegExpTest(shellAllowList[i], fullCommand)

shell_validateRequest(input) ==
    LET command == Get(input, "command")
        args == Get(input, "args")
        cwd == Get(input, "cwd")
    IN  [valid |-> Truthy(command) /\ command.t = "string",
         normalizedRequest |->
            Obj(<< <<"command", command>>,
                   <<"args", IF args.t = "array" THEN args ELSE Arr(<<>>)>>,
                   <<"cwd", IF Truthy(cwd) THEN cwd ELSE Str(ProcessCwd)>> >>)]

shell_dryRun(ctx, normalizedRequest, uuid) ==
    LET command == Get(normalizedRequest, "command")
        cwd == Get(normalizedRequest, "cwd")
        fullCommand == fullCommandOf(normalizedRequest)
        fullText == JoinWith(<<command>> \o Get(normalizedRequest, "args").v, " ")
        step(description, extra) ==
            Obj(<< <<"stepId", Str(uuid)>>, <<"type", Str("SHELL_RUN")>>,
                   <<"description", Str(description)>>,
                   <<"inputs", normalizedRequest>> >> \o extra)
    IN
    IF ctx.safeModeEnabled
    THEN << step("BLOCKED (Safe Mode): " \o command.v,
                 << <<"preview", Str("Shell commands are blocked in Safe Mode")>>,
                    <<"riskFlags", Arr(<<Str("safe_mode_blocked")>>)>>,
                    <<"riskScore", Num(0)>> >>) >>
    ELSE IF ~shell_isAllowed(ctx.shellAllowList, fullCommand)
            /\ Len(ctx.shellAllowList) > 0
    THEN << step("Command not in allowlist: " \o command.v,
                 << <<"preview", Str("Command \"" \o fullText
                                     \o "\" is not in the shell allowlist")>>,
                    <<"riskFlags", Arr(<<Str("command_not_allowed")>>)>>,
                    <<"riskScore", Num(80)>> >>) >>
    ELSE << Annotate(step("Execute: " \o fullText,
                          << <<"preview", Str("Will run: " \o fullText
                                              \o "\nWorking directory: " \o cwd.v)>>,
                             <<"riskFlags", Arr(<<>>)>> >>)) >>

\* One step of shell execute; exitOk is whether the spawned command exits 0.
shell_executeStep(ctx, step, exitOk) ==
    LET stepId == Get(step, "stepId").v
        inputs == Get(step, "inputs")
    IN
    IF ctx.safeModeEnabled
    THEN [result |-> [stepId |-> stepId, status |-> "blocked",
                      output |-> "Safe Mode enabled - shell commands blocked"],
          effects |-> {}]
    ELSE [result |-> [stepId |-> stepId,
                      status |-> IF exitOk THEN "success" ELSE "failed",
                      output |-> "stdout"],
          effects |-> {[kind |-> "spawn", target |-> fullCommandOf(inputs),
                        by |-> "execute"]}]

shell_execute(ctx, approvedPlan, exitOk) ==
    LET each == [i \in 1..Len(approvedPlan) |->
                    shell_executeStep(ctx, approvedPlan[i], exitOk)]
    IN  [results |-> [i \in 1..Len(approvedPlan) |-> each[i].result],
         effects |-> UNION {each[i].effects : i \in 1..Len(approvedPlan)}]

network_validateRequest(input) ==
    LET domains == Get(input, "domains")
        purpose == Get(input, "purpose")
    IN  [valid |-> Truthy(domains) /\ domains.t = "array",
         normalizedRequest |->
            Obj(<< <<"domains", IF Truthy(domains) THEN domains ELSE Arr(<<>>)>>,
                   <<"purpose", IF Truthy(purpose) THEN purpose
                                ELSE Str("unspecified")>> >>)]

network_dryRun(normalizedRequest, uuid) ==
    LET domains == JoinWith(Get(normalizedRequest, "domains").v, ", ")
    IN  << Annotate(Obj(<< <<"stepId", Str(uuid)>>, <<"type", Str("NET_ALLOW")>>,
                           <<"description", Str("Allow network access to: " \o domains)>>,
                           <<"inputs", normalizedRequest>>,
                           <<"preview", Str("Purpose: "
                                            \o Get(normalizedRequest, "purpose").v
                                            \o "\nDomains: " \o domains)>>,
                           <<"riskFlags", Arr(<<>>)>> >>)) >>

echo_validateRequest(input) ==
    LET message == Get(input, "message")
        ok == Truthy(message) /\ message.t = "string"
    IN  [valid |-> ok,
         normalizedRequest |-> IF ok THEN Obj(<< <<"message", message>> >>)
                               ELSE Obj(<<>>)]

echo_dryRun(normalizedRequest, uuid) ==
    << Obj(<< <<"stepId", Str(uuid)>>, <<"type", Str("FS_READ")>>,
              <<"description", Str("Echo: "
                                   \o TemplateString(Get(normalizedRequest, "message")))>>,
              <<"inputs", normalizedRequest>>,
              <<"preview", Str("Will echo: \""
                               \o TemplateString(Get(normalizedRequest, "message"))
                               \o "\"")>>,
              <<"riskFlags", Arr(<<>>)>>,
              <<"riskScore", Num(0)>> >>) >>

\* network and echo execute: every step succeeds, nothing is touched.
advisory_execute(approvedPlan) ==
    [i \in 1..Len(approvedPlan) |->
        [stepId |-> Get(approvedPlan[i], "stepId").v, status |-> "success",
         output |-> "ok"]]

\* ------------------------------------------------------ plugin registry
\* registry.ts initializePlugins: the four builtin plugins, by capability type.
PluginTypes == {"filesystem", "shell", "network", "echo"}
getPlugin(type) == IF type \in PluginTypes THEN type ELSE "none"

plugin_validateRequest(plugin, input) ==
    CASE plugin = "filesystem" -> filesystem_validateRequest(input)
      [] plugin = "shell" -> shell_validateRequest(input)
      [] plugin = "network" -> network_validateRequest(input)
      [] plugin = "echo" -> echo_validateRequest(input)

plugin_dryRun(plugin, ctx, normalizedRequest, fsys, uuid) ==
    CASE plugin = "filesystem" -> filesystem_dryRun(ctx, normalizedRequest, fsys, uuid)
      [] plugin = "shell" ->
            [threw |-> FALSE, steps |-> shell_dryRun(ctx, normalizedRequest, uuid)]
      [] plugin = "network" ->
            [threw |-> FALSE, steps |-> network_dryRun(normalizedRequest, uuid)]
      [] plugin = "echo" ->
            [threw |-> FALSE, steps |-> echo_dryRun(normalizedRequest, uuid)]

\* A dryRun that already writes the file it plans to write.
dryRunThatWrites(plugin, ctx, normalizedRequest, fsys) ==
    {[kind |-> "write", target |-> <<>>, by |-> "dryRun"]}

\* What dryRun does to the world: only the filesystem plugin touches it.
plugin_dryRunEffects(plugin, ctx, normalizedRequest, fsys) ==
    IF plugin = "filesystem"
    THEN filesystem_dryRunEffects(ctx, normalizedRequest, fsys)
    ELSE {}

plugin_execute(plugin, ctx, approvedPlan, fsys, exitOk) ==
    CASE plugin = "filesystem" -> filesystem_execute(ctx, approvedPlan, fsys)
      [] plugin = "shell" ->
            Let(shell_execute(ctx, approvedPlan, exitOk), LAMBDA r :
                [results |-> r.results, fsys |-> fsys, effects |-> r.effects])
      [] OTHER ->
            [results |-> advisory_execute(approvedPlan), fsys |-> fsys, effects |-> {}]

\* ------------------------------------------------------------------ state
VARIABLES
    requests,      \* action_requests rows; the id of a row is its index
    plans,         \* plans rows
    approvals,     \* approvals rows
    receipts,      \* execution_receipts rows
    auditEvents,   \* audit_events rows
    settings,      \* settings rows: key -> JSON value
    capabilities,  \* agent_capabilities rows
    fsys,          \* the filesystem: resolved path -> content
    effects,       \* what the effectors did to the world, and in which phase
    execLog,       \* each call of plugin.execute, with what the handler had checked
    pc,            \* where each running handler is
    local,         \* the local variables of each running handler
    nextUuid,      \* randomUUID(): a fresh value at every call
    tampers,       \* ids of the plans overwritten directly in the store
    settingUpdates, \* number of setting changes so far
    metrics,       \* agent_metrics and rate_limit_usage rows (src/server only)
    agents,        \* agents rows: name and apiKeyHash, the row's index is its id
    issued,        \* every API key generated and stored so far: for which agent, by which handler
    calc           \* a pure function under test: its inputs and what it returned

vars == <<requests, plans, approvals, receipts, auditEvents, settings,
          capabilities, fsys, effects, execLog, pc, local, nextUuid, tampers,
          settingUpdates, metrics, agents, issued, calc>>

Procs == 1..NumProcs
Agents == {1, 2}
AdminUserId == 1

\* new Date().toISOString(): the model keeps every event at one instant, the
\* case in which the timestamp does nothing to tell two events apart.
Timestamp == Str("T")

StrArr(strs) == Arr([i \in 1..Len(strs) |-> Str(strs[i])])

\* The requests agents send: {type, operation, params}.
AgentAction(type, operation, params) ==
    Obj(<< <<"type", Str(type)>>, <<"operation", Str(operation)>>,
           <<"params", params>> >>)

Actions ==
    { \* read inside the sandbox, optional parameters omitted
      AgentAction("filesystem", "read",
          Obj(<< <<"operation", Str("read")>>, <<"path", Str("/s/x")>> >>)),
      \* read outside the sandbox, optional parameters omitted
      AgentAction("filesystem", "read",
          Obj(<< <<"operation", Str("read")>>, <<"path", Str("/e/p")>> >>)),
      \* read outside the sandbox, every parameter given
      AgentAction("filesystem", "read",
          Obj(<< <<"operation", Str("read")>>, <<"path", Str("/e/p")>>,
                 <<"content", Str("c")>>, <<"destination", Str("/s/y")>> >>)),
      \* write inside the sandbox, every parameter given
      AgentAction("filesystem", "write",
          Obj(<< <<"operation", Str("write")>>, <<"path", Str("/s/y")>>,
                 <<"content", Str("c")>>, <<"destination", Str("/s/y")>> >>)),
      \* list without a path
      AgentAction("filesystem", "list", Obj(<< <<"operation", Str("list")>> >>)),
      \* invalid: read without a path
      AgentAction("filesystem", "read", Obj(<< <<"operation", Str("read")>> >>)),
      AgentAction("shell", "run", Obj(<< <<"command", Str("ls")>> >>)),
      AgentAction("shell", "run",
          Obj(<< <<"command", Str("rm")>>, <<"args", StrArr(<<"-rf">>)>>,
                 <<"cwd", Str("/s")>> >>)),
      AgentAction("network", "allow",
          Obj(<< <<"domains", StrArr(<<"a.ru">>)>> >>)),
      AgentAction("echo", "echo", Obj(<< <<"message", Str("hi")>> >>)),
      \* a capability type that no plugin serves
      AgentAction("custom", "run", Obj(<<>>)) }

\* The values an admin writes with PUT /api/admin/settings/:key.
SettingWrites ==
    { <<"shell_allowlist", Arr(<<>>)>>,
      <<"safe_mode", Bool(TRUE)>> }

\* What an admin sends with PATCH /api/admin/agents/:id/capabilities/:type:
\* <<agent id, capability type, enabled>>.
CapabilityWrites ==
    { <<1, "echo", FALSE>>, <<2, "echo", TRUE>> }

\* An audit event as createAuditEvent builds it from what it read.
AuditPayload(eventType, data) ==
    Obj(<< <<"eventType", Str(eventType)>>, <<"data", data>>,
           <<"timestamp", Timestamp>> >>)
\* A hash that leaves the previous event's hash out.
hashWithoutPrev(prevHash, eventType, data) ==
    computeHash(canonicalJson(AuditPayload(eventType, data)).v)

AuditHash(prevHash, eventType, data) ==
    computeHash(prevHash \o canonicalJson(AuditPayload(eventType, data)).v)
AuditRow(prevHash, eventType, data) ==
    [prevHash |-> prevHash,
     eventHash |-> AuditHash(prevHash, eventType, data),
     eventType |-> eventType,
     data |-> JsonRoundTrip(AuditPayload(eventType, data))]

\* A store that keeps only the newest event in the last row.
overwriteLast(events, row) ==
    IF Len(events) = 0 THEN <<row>> ELSE [events EXCEPT ![Len(events)] = row]

\* storage.createAuditEvent: INSERT INTO audit_events
storage_createAuditEvent(events, row) == Append(events, row)

\* lastEvent?.eventHash || "GENESIS"
PrevHashOf(events) ==
    IF Len(events) = 0 \/ events[Len(events)].eventHash = "" THEN "GENESIS"
    ELSE events[Len(events)].eventHash

RECURSIVE AppendEvents(_, _)
AppendEvents(events, todo) ==
    IF Len(todo) = 0 THEN events
    ELSE AppendEvents(
            storage_createAuditEvent(
                events, AuditRow(PrevHashOf(events), Head(todo)[1], Head(todo)[2])),
            Tail(todo))

SeedCapabilities ==
    << [agentId |-> 1, type |-> "filesystem", enabled |-> TRUE],
       [agentId |-> 1, type |-> "shell", enabled |-> TRUE],
       [agentId |-> 1, type |-> "network", enabled |-> TRUE],
       [agentId |-> 1, type |-> "echo", enabled |-> TRUE],
       [agentId |-> 2, type |-> "shell", enabled |-> TRUE],
       [agentId |-> 2, type |-> "filesystem", enabled |-> FALSE] >>

\* The log after the admin logged in, created the two agents and set their
\* capabilities, one handler after the other.
SeedEvents ==
    AppendEvents(<<>>,
        << <<"ADMIN_LOGIN", Obj(<< <<"userId", Num(AdminUserId)>>,
                                   <<"username", Str("admin")>> >>)>>,
           <<"AGENT_CREATED", Obj(<< <<"agentId", Num(1)>>, <<"name", Str("a")>> >>)>>,
           <<"AGENT_CREATED", Obj(<< <<"agentId", Num(2)>>, <<"name", Str("b")>> >>)>> >>
        \o [i \in 1..Len(SeedCapabilities) |->
              <<"CAPABILITY_UPDATED",
                Obj(<< <<"agentId", Num(SeedCapabilities[i].agentId)>>,
                       <<"type", Str(SeedCapabilities[i].type)>>,
                       <<"enabled", Bool(SeedCapabilities[i].enabled)>> >>)>>])

\* ---- auth.ts: API keys
\* generateApiKey: "sk_agent_" and 32 random bytes in hex; the n-th draw of
\* the random source differs from every earlier draw.
generateApiKey(n) == "sk_agent_" \o ToString(n)
hashApiKey(apiKey) == computeHash(apiKey)
validateApiKey(apiKey, hash) == hashApiKey(apiKey) = hash

\* The agents table after the admin created the two agents: each row holds
\* the hash of the key that was returned at creation.
SeedAgents ==
    << [name |-> "a", apiKeyHash |-> hashApiKey(generateApiKey(1))],
       [name |-> "b", apiKeyHash |-> hashApiKey(generateApiKey(2))] >>
SeedKeys ==
    << [apiKey |-> generateApiKey(1), agentId |-> 1, by |-> "createAgent"],
       [apiKey |-> generateApiKey(2), agentId |-> 2, by |-> "createAgent"] >>

\* No agent_metrics row and no rate_limit_usage row for an agent yet.
NoMetrics == [row |-> FALSE, requestsTotal |-> 0, requestsApproved |-> 0,
              requestsRejected |-> 0, requestsExecuted |-> 0,
              requestsFailed |-> 0, usage |-> 0]

NoLocal ==
    [h |-> "none", agentId |-> 0, id |-> 0, action |-> Null, decision |-> "",
     plan |-> Null, request |-> Null, roots |-> Null, shell |-> Null,
     safe |-> Null, steps |-> Null, planHash |-> "", riskScore |-> 0,
     planId |-> 0, receiptId |-> 0, results |-> <<>>, checked |-> Null,
     evType |-> "", evData |-> Null, prevHash |-> "", key |-> "", value |-> Null,
     resp |-> "", name |-> "", agentIds |-> <<>>, count |-> 0]

\* Nothing is being computed.
NoCalc == [fn |-> "", how |-> "", in |-> <<>>, out |-> <<>>]

\* The store, the world and the handlers after set-up.
InitStore ==
    /\ requests = <<>>
    /\ plans = <<>>
    /\ approvals = <<>>
    /\ receipts = <<>>
    /\ auditEvents = SeedEvents
    /\ settings = [allowed_roots |-> StrArr(<<"/s">>),
                   shell_allowlist |-> StrArr(<<"^ls", "^cat", "^echo", "^pwd">>),
                   safe_mode |-> Bool(FALSE)]
    /\ capabilities = SeedCapabilities
    /\ fsys = (Chars("/s/x") :> "hello" @@ Chars("/e/p") :> "secret")
    /\ effects = {}
    /\ execLog = {}
    /\ pc = [p \in Procs |-> "idle"]
    /\ local = [p \in Procs |-> NoLocal]
    /\ nextUuid = 1
    /\ tampers = {}
    /\ settingUpdates = 0
    /\ metrics = [a \in Agents |-> NoMetrics]
    /\ agents = SeedAgents
    /\ issued = SeedKeys

Init == InitStore /\ calc = NoCalc

\* ------------------------------------------------------------- handlers
\* A new request is taken by the lowest idle handler slot (the slots are
\* interchangeable).
CanStart(p) ==
    /\ pc[p] = "idle"
    /\ \A q \in Procs : q < p => pc[q] # "idle"

Goto(p, label, loc) ==
    /\ pc' = [pc EXCEPT ![p] = label]
    /\ local' = [local EXCEPT ![p] = loc]

\* res.status(code).json(...): the handler is over, nothing else happened.
Reply(p, code) == Goto(p, "respond", [NoLocal EXCEPT !.h = local[p].h, !.resp = code])

\* The same, for a handler that is only now starting.
ReplyNew(p, h, code) == Goto(p, "respond", [NoLocal EXCEPT !.h = h, !.resp = code])

\* A handler that answers without its audit event.
skipAudit(p, eventType, data, code) == Reply(p, code)

\* await createAuditEvent(eventType, data), then the response `code`.
CallAudit(p, eventType, data, code) ==
    Goto(p, "au_read",
         [NoLocal EXCEPT !.h = local[p].h, !.evType = eventType, !.evData = data,
                         !.resp = code])

StoreUnchanged ==
    UNCHANGED <<requests, plans, approvals, receipts, auditEvents, settings,
                capabilities>>
WorldUnchanged == UNCHANGED <<fsys, effects, execLog>>
EnvUnchanged == UNCHANGED <<nextUuid, tampers, agents, issued, calc, settingUpdates, metrics>>

\* createAuditEvent, first await: storage.getLastAuditEvent().
AuditRead(p) ==
    /\ pc[p] = "au_read"
    /\ Goto(p, "au_insert", [local[p] EXCEPT !.prevHash = PrevHashOf(auditEvents)])
    /\ StoreUnchanged /\ WorldUnchanged /\ EnvUnchanged

\* createAuditEvent, second await: storage.createAuditEvent({...}); the
\* handler then sends its response.
AuditInsert(p) ==
    /\ pc[p] = "au_insert"
    /\ auditEvents' = storage_createAuditEvent(
                          auditEvents,
                          AuditRow(local[p].prevHash, local[p].evType, local[p].evData))
    /\ Reply(p, local[p].resp)
    /\ UNCHANGED <<requests, plans, approvals, receipts, settings, capabilities>>
    /\ WorldUnchanged /\ EnvUnchanged

\* The response is sent; the slot is free again.
Respond(p) ==
    /\ pc[p] = "respond"
    /\ Goto(p, "idle", NoLocal)
    /\ StoreUnchanged /\ WorldUnchanged /\ EnvUnchanged

\* The largest element of a non-empty set of numbers.
MaxOf(S) == CHOOSE n \in S : \A m \in S : m <= n

\* The audit events of one type.
EventsOfType(eventType) ==
    {i \in 1..Len(auditEvents) : auditEvents[i].eventType = eventType}

\* Handlers in flight, by name.
InFlight(h) == Cardinality({q \in Procs : pc[q] \notin {"idle", "respond"}
                                           /\ local[q].h = h})

\* A store in which every capability is enabled for every agent.
anyCapability(agentId, type) == [found |-> TRUE, enabled |-> TRUE]

\* caps.find(c => c.type === type) of storage.getCapabilities(agentId)
FindCapability(agentId, type) ==
    LET rows == SelectSeq(capabilities,
                          LAMBDA c : c.agentId = agentId /\ c.type = type)
    IN  IF Len(rows) = 0 THEN [found |-> FALSE, enabled |-> FALSE]
        ELSE [found |-> TRUE, enabled |-> rows[1].enabled]

\* ---- POST /api/agent/action-requests
\* Up to `await storage.getCapabilities(agentId)` and the checks after it.
CreateRequestStart(p, agentId, action) ==
    /\ CanStart(p)
    /\ LET type == Get(action, "type").v
           plugin == getPlugin(type)
           cap == FindCapability(agentId, type)
       IN  IF plugin = "none" THEN ReplyNew(p, "createRequest", "400")
           ELSE IF ~cap.enabled THEN ReplyNew(p, "createRequest", "403")
           ELSE IF ~plugin_validateRequest(plugin, Get(action, "params")).valid
           THEN ReplyNew(p, "createRequest", "400")
           ELSE /\ Len(requests) + InFlight("createRequest") < MaxRequests
                /\ Goto(p, "cr_insert",
                        [NoLocal EXCEPT !.h = "createRequest", !.agentId = agentId,
                                        !.action = action])
    /\ StoreUnchanged /\ WorldUnchanged /\ EnvUnchanged

\* `await storage.createRequest({...})`, then createAuditEvent.
CreateRequestInsert(p) ==
    /\ pc[p] = "cr_insert"
    /\ requests' = Append(requests,
                          [agentId |-> local[p].agentId, status |-> "pending",
                           input |-> JsonRoundTrip(local[p].action)])
    /\ CallAudit(p, "REQUEST_CREATED",
                 Obj(<< <<"requestId", Num(Len(requests) + 1)>>,
                        <<"agentId", Num(local[p].agentId)>>,
                        <<"type", Get(local[p].action, "type")>> >>),
                 "201")
    /\ UNCHANGED <<plans, approvals, receipts, auditEvents, settings, capabilities>>
    /\ WorldUnchanged /\ EnvUnchanged

\* ---- getPluginContext: three settings, one await each
\* Array.isArray(roots) ? roots : ["./sandbox"]
ContextRoots(value) ==
    IF value.t = "array" THEN [i \in 1..Len(value.v) |-> value.v[i].v]
    ELSE <<"./sandbox">>
ContextShell(value) ==
    IF value.t = "array" THEN [i \in 1..Len(value.v) |-> value.v[i].v] ELSE <<>>
\* safeMode === true || safeMode === "true"
ContextSafeMode(value) == value = Bool(TRUE) \/ value = Str("true")

GetSettingRoots(p) ==
    /\ pc[p] = "ctx_roots"
    /\ Goto(p, "ctx_shell",
            [local[p] EXCEPT !.roots = ContextRoots(settings.allowed_roots)])
    /\ StoreUnchanged /\ WorldUnchanged /\ EnvUnchanged

GetSettingShell(p) ==
    /\ pc[p] = "ctx_shell"
    /\ Goto(p, "ctx_safe",
            [local[p] EXCEPT !.shell = ContextShell(settings.shell_allowlist)])
    /\ StoreUnchanged /\ WorldUnchanged /\ EnvUnchanged

\* The context a handler has once it read safe_mode, the last of the three.
PluginContext(p) ==
    [allowedRoots |-> local[p].roots,
     shellAllowList |-> local[p].shell,
     safeModeEnabled |-> ContextSafeMode(settings.safe_mode)]

\* A handler that lets every agent at every request.
anyOwner(request, agentId) == TRUE

\* request.agentId !== agentId is the refusal; this is its negation.
ownsRequest(request, agentId) == request.agentId = agentId

\* ---- POST /api/agent/action-requests/:id/dry-run
\* Up to `await storage.getRequest(requestId)` and the checks after it.
DryRunStart(p, agentId, requestId) ==
    /\ CanStart(p)
    /\ IF requestId > Len(requests) \/ ~ownsRequest(requests[requestId], agentId)
       THEN ReplyNew(p, "dryRun", "404")
       ELSE IF getPlugin(Get(requests[requestId].input, "type").v) = "none"
       THEN ReplyNew(p, "dryRun", "400")
       ELSE /\ Len(plans) + InFlight("dryRun") < MaxPlans
            /\ Goto(p, "ctx_roots",
                    [NoLocal EXCEPT !.h = "dryRun", !.agentId = agentId,
                                    !.id = requestId,
                                    !.request = requests[requestId]])
    /\ StoreUnchanged /\ WorldUnchanged /\ EnvUnchanged

\* The steps as the handler persists them: every step of the plugin's result
\* scored again, score and flags overwritten (routes.ts 364-368).
AnnotateSteps(steps) == [i \in 1..Len(steps) |-> Annotate(steps[i])]

\* planHash = computeHash(canonicalJson(dryRunResult.steps))
PlanHashOf(steps) == computeHash(canonicalJson(Arr(steps)).v)

\* The last await of getPluginContext, then validateRequest, plugin.dryRun,
\* the annotation of the steps and the hash.
DryRunPlan(p) ==
    /\ pc[p] = "ctx_safe" /\ local[p].h = "dryRun"
    /\ \E ctx \in {PluginContext(p)},
          plugin \in {getPlugin(Get(local[p].request.input, "type").v)} :
       \E validation \in {plugin_validateRequest(
                              plugin, Get(local[p].request.input, "params"))} :
       \E dryRunResult \in {plugin_dryRun(plugin, ctx, validation.normalizedRequest,
                                          fsys, "uuid-" \o ToString(nextUuid))} :
       \E steps \in {AnnotateSteps(dryRunResult.steps)} :
           /\ effects' = effects \cup
                  plugin_dryRunEffects(plugin, ctx, validation.normalizedRequest, fsys)
           /\ IF dryRunResult.threw
              \* the rejection is not caught: the handler ends here
              THEN Reply(p, "threw")
              ELSE Goto(p, "dr_createPlan",
                        [NoLocal EXCEPT !.h = "dryRun", !.id = local[p].id,
                                        !.steps = steps,
                                        !.planHash = PlanHashOf(steps),
                                        !.riskScore = calculatePlanRiskScore(steps)])
    \* a value of randomUUID() that no plan keeps is not seen again
    /\ nextUuid' = IF pc'[p] = "respond" THEN nextUuid ELSE nextUuid + 1
    /\ StoreUnchanged /\ UNCHANGED <<fsys, execLog, tampers, agents, issued, calc, settingUpdates, metrics>>

\* `await storage.createPlan({...})`: steps is a JSON text column.
DryRunCreatePlan(p) ==
    /\ pc[p] = "dr_createPlan"
    /\ plans' = Append(plans,
                       [requestId |-> local[p].id, planHash |-> local[p].planHash,
                        steps |-> JsonRoundTrip(Arr(local[p].steps)),
                        riskScore |-> local[p].riskScore])
    /\ Goto(p, "dr_status",
            [NoLocal EXCEPT !.h = "dryRun", !.id = local[p].id,
                            !.planId = Len(plans) + 1,
                            !.riskScore = local[p].riskScore])
    /\ UNCHANGED <<requests, approvals, receipts, auditEvents, settings, capabilities>>
    /\ WorldUnchanged /\ EnvUnchanged

\* storage.updateRequestStatus: UPDATE ... SET status WHERE id.
updateRequestStatus(id, status) ==
    requests' = [requests EXCEPT ![id].status = status]

\* `await storage.updateRequestStatus(requestId, "planned")`, then audit.
DryRunUpdateStatus(p) ==
    /\ pc[p] = "dr_status"
    /\ updateRequestStatus(local[p].id, "planned")
    /\ CallAudit(p, "DRY_RUN_COMPLETE",
                 Obj(<< <<"requestId", Num(local[p].id)>>,
                        <<"planId", Num(local[p].planId)>>,
                        <<"riskScore", Num(local[p].riskScore)>> >>),
                 "200")
    /\ UNCHANGED <<plans, approvals, receipts, auditEvents, settings, capabilities>>
    /\ WorldUnchanged /\ EnvUnchanged

\* ---- POST /api/admin/plans/:id/approve (the session is an admin's)
Decisions == {"approved", "rejected"}

\* Up to `await storage.getPlan(planId)`.
ApproveStart(p, planId, decision) ==
    /\ CanStart(p)
    /\ IF planId > Len(plans)
       THEN ReplyNew(p, "approve", "404")
       ELSE /\ Len(approvals) + InFlight("approve") < MaxApprovals
            /\ Goto(p, "ap_createApproval",
                    [NoLocal EXCEPT !.h = "approve", !.planId = planId,
                                    !.id = plans[planId].requestId,
                                    !.decision = decision])
    /\ StoreUnchanged /\ WorldUnchanged /\ EnvUnchanged

\* `await storage.createApproval({...})`
ApproveCreateApproval(p) ==
    /\ pc[p] = "ap_createApproval"
    /\ approvals' = Append(approvals,
                           [planId |-> local[p].planId, approvedBy |-> AdminUserId,
                            decision |-> local[p].decision])
    /\ Goto(p, "ap_status", local[p])
    /\ UNCHANGED <<requests, plans, receipts, auditEvents, settings, capabilities>>
    /\ WorldUnchanged /\ EnvUnchanged

\* `await storage.updateRequestStatus(plan.requestId, newStatus)`, then audit.
ApproveUpdateStatus(p) ==
    /\ pc[p] = "ap_status"
    /\ updateRequestStatus(local[p].id,
                           IF local[p].decision = "approved" THEN "approved"
                           ELSE "rejected")
    /\ CallAudit(p, "PLAN_DECISION",
                 Obj(<< <<"planId", Num(local[p].planId)>>,
                        <<"decision", Str(local[p].decision)>>,
                        <<"approvedBy", Num(AdminUserId)>> >>),
                 "200")
    /\ UNCHANGED <<plans, approvals, receipts, auditEvents, settings, capabilities>>
    /\ WorldUnchanged /\ EnvUnchanged

\* ---- POST /api/agent/plans/:id/execute
\* Up to `await storage.getPlan(planId)`.
execute_getPlan(p, agentId, planId, limit) ==
    /\ CanStart(p)
    /\ IF planId > Len(plans)
       THEN ReplyNew(p, "execute", "404")
       ELSE /\ Len(receipts) + InFlight("execute") < limit
            /\ Goto(p, "ex_getRequest",
                    [NoLocal EXCEPT !.h = "execute", !.agentId = agentId,
                                    !.planId = planId, !.plan = plans[planId]])
    /\ StoreUnchanged /\ WorldUnchanged /\ EnvUnchanged

ExecuteStart(p, agentId, planId) == execute_getPlan(p, agentId, planId, MaxReceipts)

\* A handler that lets every status through.
anyStatusOk(request) == TRUE

\* request.status !== "approved" is the refusal; this is its negation.
execute_statusOk(request) == request.status = "approved"

\* A handler that lets every plan hash through.
anyHashOk(plan) == TRUE

\* currentPlanHash !== plan.planHash is the refusal; this is its negation.
execute_hashOk(plan) == computeHash(canonicalJson(plan.steps).v) = plan.planHash

\* `await storage.getRequest(plan.requestId)` and the four checks after it.
ExecuteGetRequest(p) ==
    /\ pc[p] = "ex_getRequest"
    /\ LET plan == local[p].plan
           request == requests[plan.requestId]
       IN  IF ~ownsRequest(request, local[p].agentId) THEN Reply(p, "403")
           ELSE IF ~execute_statusOk(request) THEN Reply(p, "400")
           ELSE IF getPlugin(Get(request.input, "type").v) = "none"
           THEN Reply(p, "400")
           ELSE IF ~execute_hashOk(plan) THEN Reply(p, "400 integrity")
           ELSE Goto(p, "ctx_roots",
                     [local[p] EXCEPT !.id = plan.requestId, !.request = request])
    /\ StoreUnchanged /\ WorldUnchanged /\ EnvUnchanged

\* The last await of getPluginContext, then plugin.execute(ctx, plan.steps):
\* the builtin effectors work synchronously (fs.*Sync, execSync).
ExecuteRun(p, exitOk) ==
    /\ pc[p] = "ctx_safe" /\ local[p].h = "execute"
    /\ \E ctx \in {PluginContext(p)}, plan \in {local[p].plan},
          request \in {local[p].request} :
       \E run \in {plugin_execute(getPlugin(Get(request.input, "type").v), ctx,
                                  plan.steps.v, fsys, exitOk)} :
           /\ fsys' = run.fsys
           /\ effects' = effects \cup run.effects
           /\ execLog' = execLog \cup
                  {[planId |-> local[p].planId, requestId |-> local[p].id,
                    agentId |-> local[p].agentId,
                    capEnabled |->
                        FindCapability(request.agentId,
                                       Get(request.input, "type").v).enabled,
                    latestPlanId |->
                        MaxOf({i \in 1..Len(plans) :
                                    plans[i].requestId = local[p].id}),
                    statusSeen |-> request.status,
                    hashSeen |-> computeHash(canonicalJson(plan.steps).v),
                    planHash |-> plan.planHash,
                    ctx |-> ctx, steps |-> plan.steps.v, threw |-> FALSE,
                    results |-> run.results,
                    effects |-> run.effects]}
           /\ Goto(p, "ex_receipt",
                   [NoLocal EXCEPT !.h = "execute", !.id = local[p].id,
                                   !.planId = local[p].planId,
                                   !.results = run.results])
    /\ StoreUnchanged /\ EnvUnchanged

\* allSuccess ? "success" : "partial_failure"
ReceiptStatus(results) ==
    IF \A i \in 1..Len(results) : results[i].status = "success"
    THEN "success" ELSE "partial_failure"

\* `await storage.createExecutionReceipt({...})`
ExecuteCreateReceipt(p) ==
    /\ pc[p] = "ex_receipt"
    /\ receipts' = Append(receipts,
                          [planId |-> local[p].planId,
                           status |-> ReceiptStatus(local[p].results),
                           logs |-> local[p].results])
    /\ Goto(p, "ex_status", [local[p] EXCEPT !.receiptId = Len(receipts) + 1])
    /\ UNCHANGED <<requests, plans, approvals, auditEvents, settings, capabilities>>
    /\ WorldUnchanged /\ EnvUnchanged

\* `await storage.updateRequestStatus(request.id, "executed")`, then audit.
ExecuteUpdateStatus(p) ==
    /\ pc[p] = "ex_status"
    /\ updateRequestStatus(local[p].id, "executed")
    /\ CallAudit(p, "PLAN_EXECUTED",
                 Obj(<< <<"planId", Num(local[p].planId)>>,
                        <<"receiptId", Num(local[p].receiptId)>>,
                        <<"status", Str(ReceiptStatus(local[p].results))>> >>),
                 "200")
    /\ UNCHANGED <<plans, approvals, receipts, auditEvents, settings, capabilities>>
    /\ WorldUnchanged /\ EnvUnchanged

\* ---- PUT /api/admin/settings/:key (the session is an admin's)
\* storage.updateSetting, first await: this.getSetting(key).
UpdateSettingStart(p, kv) ==
    /\ CanStart(p)
    /\ settingUpdates + InFlight("updateSetting") < MaxSettingUpdates
    /\ Goto(p, "us_write",
            [NoLocal EXCEPT !.h = "updateSetting", !.key = kv[1], !.value = kv[2]])
    /\ StoreUnchanged /\ WorldUnchanged /\ EnvUnchanged

\* storage.updateSetting, second await: the UPDATE; the handler answers
\* without an audit event.
UpdateSettingWrite(p) ==
    /\ pc[p] = "us_write"
    /\ settings' = [settings EXCEPT ![local[p].key] = local[p].value]
    /\ settingUpdates' = settingUpdates + 1
    /\ Reply(p, "200")
    /\ UNCHANGED <<requests, plans, approvals, receipts, auditEvents, capabilities>>
    /\ WorldUnchanged /\ UNCHANGED <<nextUuid, tampers, agents, issued, calc, metrics>>

\* ---- PATCH /api/admin/agents/:id/capabilities/:type (an admin's session)
\* storage.upsertCapability, first await: the rows for (agentId, type).
upsertCapability_select(p, w) ==
    LET existing == {i \in 1..Len(capabilities) :
                        /\ capabilities[i].agentId = w[1]
                        /\ capabilities[i].type = w[2]}
    IN  Goto(p, "uc_write",
             [NoLocal EXCEPT !.h = "updateCapability", !.agentId = w[1],
                             !.key = w[2], !.value = Bool(w[3]),
                             !.id = IF existing = {} THEN 0
                                    ELSE CHOOSE i \in existing :
                                             \A j \in existing : i <= j])

UpdateCapabilityStart(p, w) ==
    /\ CanStart(p)
    /\ Cardinality(EventsOfType("CAPABILITY_UPDATED")) + InFlight("updateCapability")
           < Len(SeedCapabilities) + MaxCapabilityUpdates
    /\ upsertCapability_select(p, w)
    /\ StoreUnchanged /\ WorldUnchanged /\ EnvUnchanged

\* storage.upsertCapability, second await: UPDATE of existing[0] or INSERT;
\* then createAuditEvent.
UpdateCapabilityWrite(p) ==
    /\ pc[p] = "uc_write"
    /\ capabilities' =
          IF local[p].id > 0
          THEN [capabilities EXCEPT ![local[p].id].enabled = local[p].value.v]
          ELSE Append(capabilities,
                      [agentId |-> local[p].agentId, type |-> local[p].key,
                       enabled |-> local[p].value.v])
    /\ CallAudit(p, "CAPABILITY_UPDATED",
                 Obj(<< <<"agentId", Num(local[p].agentId)>>,
                        <<"type", Str(local[p].key)>>,
                        <<"enabled", local[p].value>> >>),
                 "200")
    /\ UNCHANGED <<requests, plans, approvals, receipts, auditEvents, settings>>
    /\ WorldUnchanged /\ EnvUnchanged

\* ---- the store written from outside the server
\* plans.steps overwritten in the database, plan_hash left as it was.
TamperedSteps(steps) ==
    Arr([i \in 1..Len(steps.v) |->
            IF i = 1 THEN Put(steps.v[i], "description", Str("tampered"))
            ELSE steps.v[i]])

TamperPlan(planId) ==
    /\ planId \in 1..Len(plans)
    /\ Cardinality(tampers) < MaxTampers
    /\ planId \notin tampers
    /\ Len(plans[planId].steps.v) > 0
    /\ plans' = [plans EXCEPT ![planId].steps = TamperedSteps(@)]
    /\ tampers' = tampers \cup {planId}
    /\ UNCHANGED <<requests, approvals, receipts, auditEvents, settings,
                   capabilities, pc, local, nextUuid, settingUpdates, metrics, agents, issued, calc>>
    /\ WorldUnchanged

\* ---------------------------------------------------------- specification
\* The handlers of the request life cycle up to the decision, run by the
\* handler slots P on the agent inputs A.
LifecycleNext(P, A) ==
    \/ \E p \in P, a \in Agents, action \in A : CreateRequestStart(p, a, action)
    \/ \E p \in P : CreateRequestInsert(p)
    \/ \E p \in P, a \in Agents, r \in 1..MaxRequests : DryRunStart(p, a, r)
    \/ \E p \in P : GetSettingRoots(p)
    \/ \E p \in P : GetSettingShell(p)
    \/ \E p \in P : DryRunPlan(p)
    \/ \E p \in P : DryRunCreatePlan(p)
    \/ \E p \in P : DryRunUpdateStatus(p)
    \/ \E p \in P, planId \in 1..MaxPlans, d \in Decisions : ApproveStart(p, planId, d)
    \/ \E p \in P : ApproveCreateApproval(p)
    \/ \E p \in P : ApproveUpdateStatus(p)
    \/ \E p \in P : AuditRead(p)
    \/ \E p \in P : AuditInsert(p)
    \/ \E p \in P : Respond(p)

ExecuteNext(P) ==
    \/ \E p \in P, a \in Agents, planId \in 1..MaxPlans : ExecuteStart(p, a, planId)
    \/ \E p \in P : ExecuteGetRequest(p)
    \/ \E p \in P, exitOk \in BOOLEAN : ExecuteRun(p, exitOk)
    \/ \E p \in P : ExecuteCreateReceipt(p)
    \/ \E p \in P : ExecuteUpdateStatus(p)

SettingsNext(P) ==
    \/ \E p \in P, kv \in SettingWrites : UpdateSettingStart(p, kv)
    \/ \E p \in P : UpdateSettingWrite(p)

CapabilityNext(P) ==
    \/ \E p \in P, w \in CapabilityWrites : UpdateCapabilityStart(p, w)
    \/ \E p \in P : UpdateCapabilityWrite(p)

\* One server process on the synchronous SQLite driver: every store call of a
\* handler resolves before the next request is taken up, so one handler runs
\* at a time; the database file can still be written from outside between two
\* store calls.
Next ==
    \/ LifecycleNext({1}, Actions)
    \/ ExecuteNext({1})
    \/ SettingsNext({1})
    \/ \E planId \in 1..MaxPlans : TamperPlan(planId)

Spec == Init /\ [][Next]_vars

\* Handlers suspended at their store calls while another one runs (IStorage
\* is a Promise interface; two server processes on one database file, or a
\* store that answers asynchronously): the life cycle up to the decision,
\* on the echo inputs.
EchoActions == {a \in Actions : Get(a, "type") = Str("echo")}

ConcNext == LifecycleNext(Procs, EchoActions)

SpecConc == Init /\ [][ConcNext]_vars

\* The whole life cycle of echo requests and of requests that are refused,
\* while an admin changes the agents' capabilities.
CapsActions ==
    {a \in Actions :
        \/ Get(a, "type") \in {Str("echo"), Str("custom")}
        \/ /\ Get(a, "type") = Str("filesystem")
           /\ Get(a, "operation") = Str("read")
           /\ ~HasKey(Get(a, "params"), "path")}

CapsNext ==
    \/ LifecycleNext({1}, CapsActions)
    \/ ExecuteNext({1})
    \/ CapabilityNext({1})

SpecCaps == Init /\ [][CapsNext]_vars

\* The moves agents ask for, one handler at a time: inside the sandbox, out
\* of it, and into it.
MoveAction(path, destination, more) ==
    AgentAction("filesystem", "move",
        Obj(<< <<"operation", Str("move")>>, <<"path", Str(path)>>,
               <<"destination", Str(destination)>> >> \o more))
MoveActions ==
    { MoveAction("/s/x", "/s/y", <<>>),
      \* every parameter given
      MoveAction("/s/x", "/s/y", << <<"content", Str("c")>> >>),
      MoveAction("/s/x", "/e/p", << <<"content", Str("c")>> >>),
      MoveAction("/s/x", "/s/../e/p", << <<"content", Str("c")>> >>),
      MoveAction("/e/p", "/s/y", << <<"content", Str("c")>> >>) }
MoveNext == LifecycleNext({1}, MoveActions) \/ ExecuteNext({1})
SpecMove == Init /\ [][MoveNext]_vars

\* Execute calls that overlap: a write inside the sandbox goes through the
\* life cycle one handler at a time, then up to MaxExecutions execute
\* handlers run, each suspended at its awaits while the other one runs.
MaxExecutions == 2

WriteActions ==
    {a \in Actions : /\ Get(a, "type") = Str("filesystem")
                     /\ Get(a, "operation") = Str("write")}

ExecuteStartAgain(p, agentId, planId) ==
    execute_getPlan(p, agentId, planId, MaxExecutions)

ExecNext ==
    \/ LifecycleNext({1}, WriteActions)
    \/ \E p \in Procs, a \in Agents, planId \in 1..MaxPlans :
          ExecuteStartAgain(p, a, planId)
    \/ \E p \in Procs : ExecuteGetRequest(p)
    \/ \E p \in Procs : pc[p] = "ctx_roots" /\ local[p].h = "execute"
                          /\ GetSettingRoots(p)
    \/ \E p \in Procs : pc[p] = "ctx_shell" /\ local[p].h = "execute"
                          /\ GetSettingShell(p)
    \/ \E p \in Procs, exitOk \in {TRUE} : ExecuteRun(p, exitOk)
    \/ \E p \in Procs : ExecuteCreateReceipt(p)
    \/ \E p \in Procs : ExecuteUpdateStatus(p)
    \/ \E p \in Procs \ {1} : AuditRead(p)
    \/ \E p \in Procs \ {1} : AuditInsert(p)
    \/ \E p \in Procs \ {1} : Respond(p)

SpecExec == Init /\ [][ExecNext]_vars

\* A write inside the sandbox goes through the life cycle, one handler at a
\* time, while an admin takes the root it lies under out of allowed_roots.
RootsWrites == { <<"allowed_roots", StrArr(<<"/app">>)>> }

RootsNext ==
    \/ LifecycleNext({1}, WriteActions)
    \/ ExecuteNext({1})
    \/ \E kv \in RootsWrites : UpdateSettingStart(1, kv)
    \/ UpdateSettingWrite(1)

SpecRoots == Init /\ [][RootsNext]_vars

\* ================================================================
\* The admin routes of src/apps/server and the agents' API keys, with two
\* handlers suspended at their store calls while the other one runs.
MaxAdminCalls == 2

\* ---- routes.ts: requireAdmin, authenticateAgent
NoSession == Obj(<<>>)
AdminSession == Obj(<< <<"userId", Num(AdminUserId)>> >>)
Sessions == {NoSession, AdminSession}

\* A middleware that lets every session through.
anySession(session) == TRUE

\* requireAdmin: next() is called only when req.session.userId is set.
requireAdmin(session) == Truthy(Get(session, "userId"))

\* authenticateAgent: the id of the first agent whose apiKeyHash the key
\* validates against, 0 for none.
authenticateAgent(rows, apiKey) ==
    LET hits == {i \in 1..Len(rows) : validateApiKey(apiKey, rows[i].apiKeyHash)}
    IN  IF hits = {} THEN 0 ELSE CHOOSE i \in hits : \A j \in hits : i <= j

\* ---- storage.ts and schema.ts: the agents table
storage_getAgentByName(rows, name) ==
    LET hits == {i \in 1..Len(rows) : rows[i].name = name}
    IN  IF hits = {} THEN 0 ELSE CHOOSE i \in hits : \A j \in hits : i <= j

\* A table that accepts any name.
agents_name_any(rows, name) == TRUE

\* name: text("name").notNull().unique(): the INSERT of a row is accepted
\* only when no row has its name.
agents_name_unique(rows, name) == \A i \in 1..Len(rows) : rows[i].name # name

\* An UPDATE that changes no row.
keepAgentKey(rows, id, apiKeyHash) == rows

\* storage.updateAgentKey: UPDATE agents SET api_key_hash WHERE id.
storage_updateAgentKey(rows, id, apiKeyHash) ==
    [rows EXCEPT ![id].apiKeyHash = apiKeyHash]

\* Handlers of admin routes begun so far and not refused: those in flight,
\* those that appended their audit event, and the setting updates.
AdminStarted ==
    (Len(auditEvents) - Len(SeedEvents)) + settingUpdates
    + Cardinality({q \in Procs : pc[q] \notin {"idle", "respond"}})

AgentsUnchanged == UNCHANGED <<agents, issued>>
AllUnchanged == StoreUnchanged /\ WorldUnchanged /\ EnvUnchanged

\* An admin route: requireAdmin, then the handler.
Admin(p, session, route, Handler) ==
    IF requireAdmin(session)
    THEN AdminStarted < MaxAdminCalls /\ Handler
    ELSE CanStart(p) /\ ReplyNew(p, route, "401") /\ AllUnchanged

\* ---- POST /api/admin/agents
AgentNames == {"", "a", "c"}

\* CreateAgentSchema.parse, then `await storage.getAgentByName(name)`.
CreateAgentStart(p, name) ==
    /\ CanStart(p)
    /\ IF name = ""
       THEN ReplyNew(p, "createAgent", "400")
       ELSE IF storage_getAgentByName(agents, name) # 0
       THEN ReplyNew(p, "createAgent", "409")
       ELSE Goto(p, "ca_insert", [NoLocal EXCEPT !.h = "createAgent", !.name = name])
    /\ AllUnchanged

\* generateApiKey, hashApiKey, `await storage.createAgent(...)`, then the
\* audit event; an INSERT the table rejects throws into the catch block.
CreateAgentInsert(p) ==
    /\ pc[p] = "ca_insert"
    /\ LET apiKey == generateApiKey(Len(issued) + 1)
           id == Len(agents) + 1
       IN  IF agents_name_unique(agents, local[p].name)
           THEN /\ agents' = Append(agents, [name |-> local[p].name,
                                             apiKeyHash |-> hashApiKey(apiKey)])
                /\ issued' = Append(issued, [apiKey |-> apiKey, agentId |-> id,
                                                 by |-> "createAgent"])
                /\ CallAudit(p, "AGENT_CREATED",
                             Obj(<< <<"agentId", Num(id)>>,
                                    <<"name", Str(local[p].name)>> >>),
                             "201")
           ELSE /\ Goto(p, "respond", [local[p] EXCEPT !.resp = "400"])
                /\ AgentsUnchanged
    /\ StoreUnchanged /\ WorldUnchanged
    /\ UNCHANGED <<nextUuid, tampers, settingUpdates, metrics, calc>>

\* ---- POST /api/admin/agents/:id/rotate-key
AgentIds == 1..3

\* `await storage.getAgent(id)`
RotateKeyStart(p, id) ==
    /\ CanStart(p)
    /\ IF id \notin 1..Len(agents)
       THEN ReplyNew(p, "rotateKey", "404")
       ELSE Goto(p, "rk_update", [NoLocal EXCEPT !.h = "rotateKey", !.id = id])
    /\ AllUnchanged

\* generateApiKey, `await storage.updateAgentKey(id, hashApiKey(apiKey))`,
\* then the audit event.
RotateKeyUpdate(p) ==
    /\ pc[p] = "rk_update"
    /\ LET apiKey == generateApiKey(Len(issued) + 1)
       IN  /\ agents' = storage_updateAgentKey(agents, local[p].id, hashApiKey(apiKey))
           /\ issued' = Append(issued, [apiKey |-> apiKey, agentId |-> local[p].id,
                                            by |-> "rotateKey"])
    /\ CallAudit(p, "AGENT_KEY_ROTATED",
                 Obj(<< <<"agentId", Num(local[p].id)>> >>), "200")
    /\ StoreUnchanged /\ WorldUnchanged
    /\ UNCHANGED <<nextUuid, tampers, settingUpdates, metrics, calc>>

\* ---- POST /api/admin/safe-mode
\* storage.updateSetting("safe_mode", enabled), first await: getSetting.
SetSafeModeStart(p, enabled) ==
    /\ CanStart(p)
    /\ Goto(p, "sm_write",
            [NoLocal EXCEPT !.h = "setSafeMode", !.key = "safe_mode",
                            !.value = Bool(enabled)])
    /\ AllUnchanged

\* storage.updateSetting, second await: the UPDATE; then the audit event.
SetSafeModeWrite(p) ==
    /\ pc[p] = "sm_write"
    /\ settings' = [settings EXCEPT ![local[p].key] = local[p].value]
    /\ CallAudit(p, "SAFE_MODE_CHANGED", Obj(<< <<"enabled", local[p].value>> >>),
                 "200")
    /\ UNCHANGED <<requests, plans, approvals, receipts, auditEvents, capabilities>>
    /\ WorldUnchanged /\ EnvUnchanged

\* ---- POST /api/admin/lockdown
\* storage.updateSetting("safe_mode", true), first await: getSetting.
LockdownStart(p) ==
    /\ CanStart(p)
    /\ Goto(p, "ld_write",
            [NoLocal EXCEPT !.h = "lockdown", !.key = "safe_mode",
                            !.value = Bool(TRUE)])
    /\ AllUnchanged

\* storage.updateSetting, second await: the UPDATE.
LockdownSetSafeMode(p) ==
    /\ pc[p] = "ld_write"
    /\ settings' = [settings EXCEPT ![local[p].key] = local[p].value]
    /\ Goto(p, "ld_agents", local[p])
    /\ UNCHANGED <<requests, plans, approvals, receipts, auditEvents, capabilities>>
    /\ WorldUnchanged /\ EnvUnchanged

\* The audit event of the lockdown.
LockdownAudit(p, count) ==
    CallAudit(p, "EMERGENCY_LOCKDOWN",
              Obj(<< <<"triggeredBy", Num(AdminUserId)>>,
                     <<"agentsAffected", Num(count)>>,
                     <<"severity", Str("critical")>> >>),
              "200")

\* `const agents = await storage.getAgents()`: the rows as they are now.
LockdownGetAgents(p) ==
    /\ pc[p] = "ld_agents"
    /\ IF Len(agents) = 0
       THEN LockdownAudit(p, 0)
       ELSE Goto(p, "ld_rotate",
                 [local[p] EXCEPT !.agentIds = [i \in 1..Len(agents) |-> i],
                                  !.count = Len(agents)])
    /\ AllUnchanged

\* One turn of the loop: generateApiKey, `await storage.updateAgentKey`;
\* after the last agent, the audit event.  The new keys are returned to
\* nobody.
LockdownRotate(p) ==
    /\ pc[p] = "ld_rotate"
    /\ LET id == Head(local[p].agentIds)
           apiKey == generateApiKey(Len(issued) + 1)
       IN  /\ agents' = storage_updateAgentKey(agents, id, hashApiKey(apiKey))
           /\ issued' = Append(issued, [apiKey |-> apiKey, agentId |-> id,
                                            by |-> "lockdown"])
    /\ IF Len(local[p].agentIds) = 1
       THEN LockdownAudit(p, local[p].count)
       ELSE Goto(p, "ld_rotate", [local[p] EXCEPT !.agentIds = Tail(@)])
    /\ StoreUnchanged /\ WorldUnchanged
    /\ UNCHANGED <<nextUuid, tampers, settingUpdates, metrics, calc>>

\* ---- PATCH /api/admin/agents/:id/capabilities/:type, PUT /api/admin/settings/:key
AdminCapabilityWrites == { <<2, "echo", TRUE>>, <<2, "echo", FALSE>> }
AdminSettingWrites == { <<"safe_mode", Bool(FALSE)>> }

UpsertCapabilityStart(p, w) ==
    /\ CanStart(p)
    /\ upsertCapability_select(p, w)
    /\ AllUnchanged

\* ---- GET /api/admin/agents, settings, audit (requests, safe-mode and
\* plugins are registered the same way)
AdminReads == {"getAgents", "getSettings", "getAudit"}

AdminRead(p, route) ==
    /\ CanStart(p)
    /\ ReplyNew(p, route, "200")
    /\ AllUnchanged

\* ---- a call of an agent route with `Authorization: Bearer <apiKey>`
AgentCall(p, apiKey) ==
    /\ CanStart(p)
    /\ IF authenticateAgent(agents, apiKey) = 0
       THEN ReplyNew(p, "agentCall", "401")
       ELSE Goto(p, "respond",
                 [NoLocal EXCEPT !.h = "agentCall", !.resp = "200",
                                 !.agentId = authenticateAgent(agents, apiKey)])
    /\ AllUnchanged

\* The first step of each admin route, for a session.
CreateAgentCall(p, session) ==
    \E name \in AgentNames : Admin(p, session, "createAgent", CreateAgentStart(p, name))
RotateKeyCall(p, session) ==
    \E id \in AgentIds : Admin(p, session, "rotateKey", RotateKeyStart(p, id))
UpdateCapabilityCall(p, session) ==
    \E w \in AdminCapabilityWrites :
        Admin(p, session, "updateCapability", UpsertCapabilityStart(p, w))
UpdateSettingCall(p, session) ==
    \E kv \in AdminSettingWrites :
        Admin(p, session, "updateSetting", UpdateSettingStart(p, kv))
ApproveCall(p, session) ==
    \E planId \in 1..MaxPlans, d \in Decisions :
        Admin(p, session, "approve", ApproveStart(p, planId, d))
SetSafeModeCall(p, session) ==
    \E enabled \in BOOLEAN :
        Admin(p, session, "setSafeMode", SetSafeModeStart(p, enabled))
LockdownCall(p, session) == Admin(p, session, "lockdown", LockdownStart(p))
AdminReadCall(p, session) ==
    \E route \in AdminReads : Admin(p, session, route, AdminRead(p, route))

AdminCall(p, session) ==
    \/ CreateAgentCall(p, session)
    \/ RotateKeyCall(p, session)
    \/ UpdateCapabilityCall(p, session)
    \/ UpdateSettingCall(p, session)
    \/ ApproveCall(p, session)
    \/ SetSafeModeCall(p, session)
    \/ LockdownCall(p, session)
    \/ AdminReadCall(p, session)

AdminNext ==
    \/ \E p \in Procs, session \in Sessions : CreateAgentCall(p, session)
    \/ \E p \in Procs, session \in Sessions : RotateKeyCall(p, session)
    \/ \E p \in Procs, session \in Sessions : UpdateCapabilityCall(p, session)
    \/ \E p \in Procs, session \in Sessions : UpdateSettingCall(p, session)
    \/ \E p \in Procs, session \in Sessions : ApproveCall(p, session)
    \/ \E p \in Procs, session \in Sessions : SetSafeModeCall(p, session)
    \/ \E p \in Procs, session \in Sessions : LockdownCall(p, session)
    \/ \E p \in Procs, session \in Sessions : AdminReadCall(p, session)
    \/ \E p \in Procs : CreateAgentInsert(p)
    \/ \E p \in Procs : RotateKeyUpdate(p)
    \/ \E p \in Procs : UpdateCapabilityWrite(p)
    \/ \E p \in Procs : UpdateSettingWrite(p)
    \/ \E p \in Procs : SetSafeModeWrite(p)
    \/ \E p \in Procs : LockdownSetSafeMode(p)
    \/ \E p \in Procs : LockdownGetAgents(p)
    \/ \E p \in Procs : LockdownRotate(p)
    \/ \E p \in Procs : AuditRead(p)
    \/ \E p \in Procs : AuditInsert(p)
    \/ \E p \in Procs : Respond(p)
    \/ \E p \in Procs, i \in 1..Len(issued) : AgentCall(p, issued[i].apiKey)

SpecAdmin == Init /\ [][AdminNext]_vars

\* ================================================================
\* The server of src/server (db.ts, storage.ts) with the plugins of
\* src/apps/server/plugins: the MCP tool call, dry-run, approval and
\* execution, each handler run from its first statement to its response
\* before the next request is taken.

\* ---- src/apps/server/plugins/builtin/shell.ts
\* isPathAllowed of shell.ts
shell_isPathAllowed(requestedPath, allowedRoots) ==
    \E i \in 1..Len(allowedRoots) :
        startsWith(resolve(requestedPath), resolve(allowedRoots[i]))

\* An empty allowlist allows nothing; otherwise some pattern matches.
isCommandAllowed(fullCmd, allowList) ==
    /\ Len(allowList) # 0
    /\ \E i \in 1..Len(allowList) : RegExpTest(allowList[i], fullCmd)

SAFE_MODE_READONLY_COMMANDS ==
    {"ls", "cat", "head", "tail", "echo", "pwd", "whoami", "date"}

\* command.split("/").pop() || command, as characters
baseCmdOf(command) ==
    LET parts == SplitSlash(Chars(command), <<>>)
        last == parts[Len(parts)]
    IN  IF last = <<>> THEN Chars(command) ELSE last

\* A safe mode that lets every command through.
allInBaseline(ctx, command) == FALSE

\* ctx.safeModeEnabled && !SAFE_MODE_READONLY_COMMANDS.includes(baseCmd)
shell_blockedBySafeMode(ctx, command) ==
    /\ ctx.safeModeEnabled
    /\ ~\E c \in SAFE_MODE_READONLY_COMMANDS : Chars(c) = baseCmdOf(command)

\* The paths a working directory of the requests resolves to, as strings.
PathStrings == {"/s", "/app"}
resolveString(path) == CHOOSE str \in PathStrings : Chars(str) = resolve(path)

\* validateRequest of shell.ts: input is the whole stored request input.
root_shell_validateRequest(input) ==
    LET params == Get(input, "params")
        command == Get(params, "command")
        args == Get(params, "args")
        cwd == Get(params, "cwd")
    IN  [valid |-> Truthy(command),
         normalizedRequest |->
            Obj(<< <<"command", command>>,
                   <<"args", IF Truthy(args) THEN args ELSE Arr(<<>>)>>,
                   <<"cwd", IF Truthy(cwd) THEN cwd ELSE Str(ProcessCwd)>> >>)]

\* dryRun of shell.ts; the scores are those of calculateStepRiskScore.
root_shell_dryRun(ctx, req, uuid) ==
    LET command == Get(req, "command")
        args == Get(req, "args")
        cwd == Get(req, "cwd")
    IN
    IF ~shell_isPathAllowed(cwd.v, ctx.allowedRoots)
    THEN [threw |-> TRUE, steps |-> <<>>]
    ELSE
    LET resolvedCwd == resolveString(cwd.v)
        fullCmd == fullCommandOf(req)
        isAllowed == isCommandAllowed(fullCmd, ctx.shellAllowList)
        inputs == Obj(<< <<"command", command>>, <<"args", args>>,
                         <<"cwd", Str(resolvedCwd)>> >>)
        step == Obj(<< <<"stepId", Str(uuid)>>, <<"type", Str("SHELL_RUN")>>,
                       <<"description",
                         Str("Run: " \o JoinWith(<<command>> \o args.v, " "))>>,
                       <<"inputs", inputs>>,
                       <<"preview", Str("Execute in " \o resolvedCwd)>>,
                       <<"riskFlags", Arr(<<>>)>> >>)
        risk == calculateStepRiskScore(step)
        flags == risk.flags
                 \o (IF isAllowed THEN <<>> ELSE <<Str("would_be_blocked")>>)
                 \o (IF shell_blockedBySafeMode(ctx, command.v)
                     THEN <<Str("blocked_by_safe_mode")>> ELSE <<>>)
    IN  [threw |-> FALSE,
         steps |-> << Put(Put(step, "riskFlags", Arr(flags)), "riskScore",
                          Num(IF isAllowed THEN risk.score ELSE 100)) >>]

\* One step of execute of shell.ts; exitOk is whether the command exits 0.
root_shell_executeStep(ctx, step, exitOk) ==
    LET stepId == Get(step, "stepId").v
        inputs == Get(step, "inputs")
        fullCmd == fullCommandOf(inputs)
    IN
    IF ~isCommandAllowed(fullCmd, ctx.shellAllowList)
    THEN [result |-> [stepId |-> stepId, status |-> "blocked",
                      output |-> "Command not in allowlist"],
          effects |-> {}]
    ELSE IF shell_blockedBySafeMode(ctx, Get(inputs, "command").v)
    THEN [result |-> [stepId |-> stepId, status |-> "blocked",
                      output |-> "Blocked by Safe Mode - only read-only commands allowed"],
          effects |-> {}]
    ELSE [result |-> [stepId |-> stepId,
                      status |-> IF exitOk THEN "success" ELSE "failed",
                      output |-> "stdout"],
          effects |-> {[kind |-> "spawn", target |-> fullCmd, by |-> "execute"]}]

root_shell_execute(ctx, approvedPlan, exitOk) ==
    LET each == [i \in 1..Len(approvedPlan) |->
                    root_shell_executeStep(ctx, approvedPlan[i], exitOk)]
    IN  [threw |-> FALSE,
         results |-> [i \in 1..Len(approvedPlan) |-> each[i].result],
         effects |-> UNION {each[i].effects : i \in 1..Len(approvedPlan)}]

\* ---- builtin/filesystem.ts of src/apps/server/plugins
\* The paths a file of the requests resolves to, as strings.
FilePathStrings == {"/s/x", "/s/y", "/e/p"}
resolveFile(path) == CHOOSE str \in FilePathStrings : Chars(str) = resolve(path)

root_filesystem_Operations == {"read", "write", "list", "delete", "move"}

\* validateRequest: input is the whole stored request input; the errors are
\* left out, valid is errors.length === 0.
root_filesystem_validateRequest(input) ==
    LET operation == Get(input, "operation")
        params == Get(input, "params")
        param(k) == IF Truthy(params) THEN Get(params, k) ELSE Undefined
    IN  [valid |->
            /\ operation.v \in root_filesystem_Operations
            /\ Truthy(param("path")) \/ operation = Str("move")
            /\ operation = Str("move")
                    => Truthy(param("from")) /\ Truthy(param("to"))
            /\ operation = Str("write") => param("content") # Undefined,
         normalizedRequest |->
            Obj(<< <<"operation", operation>>, <<"path", param("path")>>,
                   <<"content", param("content")>>, <<"from", param("from")>>,
                   <<"to", param("to")>> >>)]

\* One step of dryRun: the type and inputs of the operation, the score and
\* flags of calculateStepRiskScore, and the flag safe mode adds, which the
\* branch of the operation pushes or does not push.
root_filesystem_step(ctx, uuid, type, inputs, flagsSafeMode) ==
    LET step == Obj(<< <<"stepId", Str(uuid)>>, <<"type", Str(type)>>,
                       <<"description", Str(type)>>, <<"inputs", inputs>>,
                       <<"riskFlags", Arr(<<>>)>> >>)
        risk == calculateStepRiskScore(step)
        flags == risk.flags
                 \o (IF flagsSafeMode /\ ctx.safeModeEnabled
                     THEN <<Str("blocked_by_safe_mode")>> ELSE <<>>)
    IN  Put(Put(step, "riskFlags", Arr(flags)), "riskScore", Num(risk.score))

\* dryRun of filesystem.ts.
root_filesystem_dryRun(ctx, req, uuid) ==
    LET operation == Get(req, "operation").v
        hasTarget == Truthy(Get(req, "path"))
        content == IF Truthy(Get(req, "content")) THEN Get(req, "content") ELSE Str("")
    IN
    IF hasTarget /\ ~shell_isPathAllowed(Get(req, "path").v, ctx.allowedRoots)
    THEN [threw |-> TRUE, steps |-> <<>>]
    ELSE IF operation = "read"
    THEN [threw |-> FALSE,
          steps |-> << root_filesystem_step(ctx, uuid, "FS_READ",
                          Obj(<< <<"path", Str(resolveFile(Get(req, "path").v))>> >>),
                          TRUE) >>]
    ELSE IF operation = "write"
    THEN [threw |-> FALSE,
          steps |-> << root_filesystem_step(ctx, uuid, "FS_WRITE",
                          Obj(<< <<"path", Str(resolveFile(Get(req, "path").v))>>,
                                 <<"content", content>> >>),
                          TRUE) >>]
    ELSE IF operation = "list"
    THEN [threw |-> FALSE,
          steps |-> << root_filesystem_step(ctx, uuid, "FS_LIST",
                          Obj(<< <<"path", Str(resolveFile(Get(req, "path").v))>> >>),
                          FALSE) >>]
    ELSE IF operation = "delete"
    THEN [threw |-> FALSE,
          steps |-> << root_filesystem_step(ctx, uuid, "FS_DELETE",
                          Obj(<< <<"path", Str(resolveFile(Get(req, "path").v))>> >>),
                          TRUE) >>]
    ELSE IF operation = "move"
    THEN IF \/ ~shell_isPathAllowed(Get(req, "from").v, ctx.allowedRoots)
            \/ ~shell_isPathAllowed(Get(req, "to").v, ctx.allowedRoots)
         THEN [threw |-> TRUE, steps |-> <<>>]
         ELSE [threw |-> FALSE,
               steps |-> << root_filesystem_step(ctx, uuid, "FS_MOVE",
                               Obj(<< <<"from", Str(resolveFile(Get(req, "from").v))>>,
                                      <<"to", Str(resolveFile(Get(req, "to").v))>> >>),
                               TRUE) >>]
    ELSE [threw |-> FALSE, steps |-> <<>>]

\* ["FS_WRITE", "FS_DELETE", "FS_MOVE"].includes(step.type) under safe mode
root_filesystem_blockedBySafeMode(ctx, step) ==
    /\ ctx.safeModeEnabled
    /\ Get(step, "type").v \in {"FS_WRITE", "FS_DELETE", "FS_MOVE"}

\* The fs/promises call of a step type, as an effect on its target.
root_filesystem_effect(step) ==
    LET type == Get(step, "type").v
        inputs == Get(step, "inputs")
    IN  CASE type = "FS_READ" -> {[kind |-> "read", target |-> Chars(Get(inputs, "path").v), by |-> "execute"]}
          [] type = "FS_WRITE" -> {[kind |-> "write", target |-> Chars(Get(inputs, "path").v), by |-> "execute"]}
          [] type = "FS_LIST" -> {[kind |-> "list", target |-> Chars(Get(inputs, "path").v), by |-> "execute"]}
          [] type = "FS_DELETE" -> {[kind |-> "delete", target |-> Chars(Get(inputs, "path").v), by |-> "execute"]}
          [] type = "FS_MOVE" -> {[kind |-> "move", target |-> Chars(Get(inputs, "to").v), by |-> "execute"]}
          [] OTHER -> {}

\* One step of execute of filesystem.ts; ioOk is whether the fs call
\* resolves, a rejection is caught and makes the step failed.
root_filesystem_executeStep(ctx, step, ioOk) ==
    LET stepId == Get(step, "stepId").v
    IN
    IF root_filesystem_blockedBySafeMode(ctx, step)
    THEN [result |-> [stepId |-> stepId, status |-> "blocked",
                      output |-> "Blocked by Safe Mode"],
          effects |-> {}]
    ELSE IF ioOk
    THEN [result |-> [stepId |-> stepId, status |-> "success", output |-> "output"],
          effects |-> root_filesystem_effect(step)]
    ELSE [result |-> [stepId |-> stepId, status |-> "failed", output |-> "message"],
          effects |-> {}]

root_filesystem_execute(ctx, approvedPlan, ioOk) ==
    LET each == [i \in 1..Len(approvedPlan) |->
                    root_filesystem_executeStep(ctx, approvedPlan[i], ioOk)]
    IN  [threw |-> FALSE,
         results |-> [i \in 1..Len(approvedPlan) |-> each[i].result],
         effects |-> UNION {each[i].effects : i \in 1..Len(approvedPlan)}]

\* ---- README.md, "Plugin Development": a plugin written from the template
\* and registered for the capability type "my-capability".
myPlugin_validateRequest(input) == [valid |-> TRUE, normalizedRequest |-> input]

\* The template leaves the steps to its author: one step that carries the
\* request.
myPlugin_dryRun(normalizedRequest, uuid) ==
    [threw |-> FALSE,
     steps |-> << Obj(<< <<"stepId", Str(uuid)>>, <<"type", Str("CUSTOM")>>,
                         <<"description", Str("custom")>>,
                         <<"inputs", Get(normalizedRequest, "params")>>,
                         <<"riskFlags", Arr(<<>>)>> >>) >>]

\* execute is the author's code as well: it returns one result per step, or
\* a statement of it throws.
myPlugin_execute(approvedPlan, throws) ==
    [threw |-> throws,
     results |-> IF throws THEN <<>>
                 ELSE [i \in 1..Len(approvedPlan) |->
                          [stepId |-> Get(approvedPlan[i], "stepId").v,
                           status |-> "success", output |-> "..."]],
     effects |-> {}]

\* ---- registry.ts of src/apps/server/plugins: pluginRegistry.getPlugin
RootPluginTypes == {"filesystem", "shell", "network", "echo", "my-capability"}
root_getPlugin(type) == IF type \in RootPluginTypes THEN type ELSE "none"

\* What the environment decides about one execution.
Outcomes == {"ok", "exit1", "throw"}
OutcomesOf(plugin) == IF plugin = "shell" THEN {"ok", "exit1"} ELSE {"ok", "throw"}

root_validateRequest(plugin, input) ==
    IF plugin = "shell" THEN root_shell_validateRequest(input)
    ELSE myPlugin_validateRequest(input)
root_dryRun(plugin, ctx, normalizedRequest, uuid) ==
    IF plugin = "shell" THEN root_shell_dryRun(ctx, normalizedRequest, uuid)
    ELSE myPlugin_dryRun(normalizedRequest, uuid)
root_execute(plugin, ctx, approvedPlan, outcome) ==
    IF plugin = "shell" THEN root_shell_execute(ctx, approvedPlan, outcome = "ok")
    ELSE myPlugin_execute(approvedPlan, outcome = "throw")

\* ---- src/server/db.ts
\* getPluginContext: the three settings as they are now.
getPluginContext ==
    [allowedRoots |-> ContextRoots(settings.allowed_roots),
     shellAllowList |-> ContextShell(settings.shell_allowlist),
     safeModeEnabled |-> ContextSafeMode(settings.safe_mode)]

\* storage.incrementMetric(agentId, field): the day's row of the agent.
incrementMetric(m, agentId, field) ==
    [m EXCEPT ![agentId] = [@ EXCEPT !.row = TRUE, ![field] = @ + 1]]

\* storage.incrementRateLimitUsage(agentId): the counters of the windows.
incrementRateLimitUsage(m, agentId) ==
    [m EXCEPT ![agentId] = [@ EXCEPT !.usage = @ + 1]]

\* createAuditEvent(eventType, data), then the response.
RootAudit(p, h, eventType, data, code) ==
    /\ auditEvents' = AppendEvents(auditEvents, << <<eventType, data>> >>)
    /\ ReplyNew(p, h, code)

\* The tool calls agents make: the parts of the tool name between the dots,
\* and the arguments {operation, params}.
ShellCall(params) ==
    [name |-> <<"switchboard", "shell", "shell">>,
     args |-> [operation |-> Str("run"), params |-> params]]
ToolCalls ==
    { ShellCall(Obj(<< <<"command", Str("ls")>>, <<"cwd", Str("/s")>> >>)),
      ShellCall(Obj(<< <<"command", Str("lsblk")>>, <<"cwd", Str("/s")>> >>)),
      ShellCall(Obj(<< <<"command", Str("ls/rm")>>, <<"cwd", Str("/s")>> >>)),
      ShellCall(Obj(<< <<"command", Str("rm")>>, <<"args", StrArr(<<"-rf">>)>>,
                       <<"cwd", Str("/s")>> >>)),
      \* the working directory left to the server's own
      ShellCall(Obj(<< <<"command", Str("ls")>> >>)),
      [name |-> <<"switchboard", "my-capability", "custom-my-plugin">>,
       args |-> [operation |-> Str("run"), params |-> Obj(<<>>)]] }

\* What an admin sends to PATCH /api/agents/:id/capabilities/:type.
RootCapabilityWrites == { <<1, "my-capability", TRUE>> }

\* ---- POST /api/mcp/tools/call; no rate limit is configured, so
\* storage.checkRateLimit allows the call.
RootCallTool(p, agentId, call) ==
    /\ CanStart(p)
    /\ LET capType == IF Len(call.name) >= 2 THEN call.name[2] ELSE call.name[1]
           cap == FindCapability(agentId, capType)
       IN  IF ~cap.found \/ ~cap.enabled
           THEN /\ ReplyNew(p, "callTool", "isError")
                /\ UNCHANGED <<requests, auditEvents, metrics>>
           ELSE /\ Len(requests) < MaxRequests
                /\ requests' = Append(requests,
                       [agentId |-> agentId, status |-> "pending",
                        input |-> JsonRoundTrip(
                            Obj(<< <<"type", Str(capType)>>,
                                   <<"operation", call.args.operation>>,
                                   <<"params", call.args.params>> >>))])
                /\ metrics' = incrementRateLimitUsage(
                                  incrementMetric(metrics, agentId, "requestsTotal"),
                                  agentId)
                /\ RootAudit(p, "callTool", "MCP_REQUEST_CREATED",
                       Obj(<< <<"requestId", Num(Len(requests) + 1)>>,
                              <<"agentId", Num(agentId)>>,
                              <<"tool", Str(call.name[1] \o "." \o call.name[2]
                                            \o "." \o call.name[3])>>,
                              <<"hasReasoning", Bool(FALSE)>> >>),
                       "200")
    /\ UNCHANGED <<plans, approvals, receipts, settings, capabilities>>
    /\ WorldUnchanged /\ UNCHANGED <<nextUuid, tampers, agents, issued, calc, settingUpdates>>

\* ---- POST /api/agent/requests/:id/dry-run
RootDryRun(p, agentId, requestId) ==
    /\ CanStart(p)
    /\ IF requestId > Len(requests)
       THEN ReplyNew(p, "dryRun", "404") /\ UNCHANGED <<requests, plans, auditEvents>>
       ELSE IF ~ownsRequest(requests[requestId], agentId)
       THEN ReplyNew(p, "dryRun", "403") /\ UNCHANGED <<requests, plans, auditEvents>>
       ELSE
       \E input \in {requests[requestId].input} :
       \E plugin \in {root_getPlugin(Get(input, "type").v)} :
       IF plugin = "none"
       THEN ReplyNew(p, "dryRun", "400") /\ UNCHANGED <<requests, plans, auditEvents>>
       ELSE
       \E validation \in {root_validateRequest(plugin, input)} :
       IF ~validation.valid
       THEN ReplyNew(p, "dryRun", "400") /\ UNCHANGED <<requests, plans, auditEvents>>
       ELSE
       \E dryRunResult \in {root_dryRun(plugin, getPluginContext,
                                        validation.normalizedRequest,
                                        "uuid-" \o ToString(nextUuid))} :
       IF dryRunResult.threw
       THEN ReplyNew(p, "dryRun", "500") /\ UNCHANGED <<requests, plans, auditEvents>>
       ELSE /\ Len(plans) < MaxPlans
            /\ plans' = Append(plans,
                   [requestId |-> requestId,
                    planHash |-> PlanHashOf(dryRunResult.steps),
                    steps |-> JsonRoundTrip(Arr(dryRunResult.steps)),
                    riskScore |-> calculatePlanRiskScore(dryRunResult.steps)])
            /\ updateRequestStatus(requestId, "planned")
            /\ RootAudit(p, "dryRun", "DRY_RUN_GENERATED",
                   Obj(<< <<"requestId", Num(requestId)>>,
                          <<"planId", Num(Len(plans) + 1)>>,
                          <<"riskScore",
                            Num(calculatePlanRiskScore(dryRunResult.steps))>> >>),
                   "200")
    /\ nextUuid' = IF plans' = plans THEN nextUuid ELSE nextUuid + 1
    /\ UNCHANGED <<approvals, receipts, settings, capabilities>>
    /\ WorldUnchanged /\ UNCHANGED <<tampers, agents, issued, calc, settingUpdates, metrics>>

\* ---- POST /api/plans/:id/approve (the session is an admin's)
RootApprove(p, planId, decision) ==
    /\ CanStart(p)
    /\ IF planId > Len(plans)
       THEN /\ ReplyNew(p, "approve", "404")
            /\ UNCHANGED <<requests, approvals, auditEvents, metrics>>
       ELSE /\ Len(approvals) < MaxApprovals
            /\ approvals' = Append(approvals,
                   [planId |-> planId, approvedBy |-> AdminUserId,
                    decision |-> decision])
            /\ updateRequestStatus(plans[planId].requestId, decision)
            /\ metrics' = incrementMetric(metrics,
                              requests[plans[planId].requestId].agentId,
                              IF decision = "approved" THEN "requestsApproved"
                              ELSE "requestsRejected")
            /\ RootAudit(p, "approve",
                   IF decision = "approved" THEN "PLAN_APPROVED" ELSE "PLAN_REJECTED",
                   Obj(<< <<"planId", Num(planId)>>,
                          <<"approvedBy", Num(AdminUserId)>> >>),
                   "200")
    /\ UNCHANGED <<plans, receipts, settings, capabilities>>
    /\ WorldUnchanged /\ UNCHANGED <<nextUuid, tampers, agents, issued, calc, settingUpdates>>

\* results.some(r => r.status === "failed")
hasFailure(results) == \E i \in 1..Len(results) : results[i].status = "failed"

\* ---- POST /api/agent/plans/:id/execute
RootExecute(p, agentId, planId, outcome) ==
    /\ CanStart(p)
    /\ IF planId > Len(plans)
       THEN /\ ReplyNew(p, "execute", "404")
            /\ UNCHANGED <<requests, receipts, auditEvents, metrics, effects, execLog>>
       ELSE
       \E plan \in {plans[planId]} : \E request \in {requests[plan.requestId]} :
       IF ~ownsRequest(request, agentId)
       THEN /\ ReplyNew(p, "execute", "403")
            /\ UNCHANGED <<requests, receipts, auditEvents, metrics, effects, execLog>>
       ELSE IF ~execute_statusOk(request) \/ ~execute_hashOk(plan)
       THEN /\ ReplyNew(p, "execute", "400")
            /\ UNCHANGED <<requests, receipts, auditEvents, metrics, effects, execLog>>
       ELSE
       \E plugin \in {root_getPlugin(Get(request.input, "type").v)} :
       IF plugin = "none"
       THEN /\ ReplyNew(p, "execute", "400")
            /\ UNCHANGED <<requests, receipts, auditEvents, metrics, effects, execLog>>
       ELSE
       \E ctx \in {getPluginContext} :
       \E run \in {root_execute(plugin, ctx, plan.steps.v, outcome)} :
           /\ outcome \in OutcomesOf(plugin)
           /\ Len(receipts) < MaxReceipts
           /\ effects' = effects \cup run.effects
           /\ execLog' = execLog \cup
                  {[planId |-> planId, requestId |-> plan.requestId,
                    agentId |-> agentId, ctx |-> ctx, steps |-> plan.steps.v,
                    threw |-> run.threw, results |-> run.results,
                    effects |-> run.effects]}
           /\ IF run.threw
              \* the catch branch
              THEN /\ receipts' = Append(receipts,
                          [planId |-> planId, status |-> "failure",
                           logs |-> <<[error |-> "message"]>>])
                   /\ updateRequestStatus(plan.requestId, "failed")
                   /\ metrics' = incrementMetric(metrics, agentId, "requestsFailed")
                   /\ ReplyNew(p, "execute", "500")
                   /\ UNCHANGED auditEvents
              ELSE /\ receipts' = Append(receipts,
                          [planId |-> planId,
                           status |-> IF hasFailure(run.results) THEN "failure"
                                      ELSE "success",
                           logs |-> run.results])
                   /\ updateRequestStatus(plan.requestId,
                          IF hasFailure(run.results) THEN "failed" ELSE "executed")
                   /\ metrics' = incrementMetric(metrics, agentId,
                          IF hasFailure(run.results) THEN "requestsFailed"
                          ELSE "requestsExecuted")
                   /\ RootAudit(p, "execute", "PLAN_EXECUTED",
                          Obj(<< <<"planId", Num(planId)>>,
                                 <<"receiptId", Num(Len(receipts) + 1)>>,
                                 <<"status", Str(IF hasFailure(run.results)
                                                 THEN "failure" ELSE "success")>> >>),
                          "200")
    /\ UNCHANGED <<plans, approvals, settings, capabilities, fsys>>
    /\ UNCHANGED <<nextUuid, tampers, agents, issued, calc, settingUpdates>>

\* ---- POST /api/safe-mode (the session is an admin's)
RootSetSafeMode(p, enabled) ==
    /\ CanStart(p)
    /\ settingUpdates < MaxSettingUpdates
    /\ settingUpdates' = settingUpdates + 1
    /\ settings' = [settings EXCEPT !.safe_mode = Bool(enabled)]
    /\ RootAudit(p, "safeMode",
           IF enabled THEN "SAFE_MODE_ENABLED" ELSE "SAFE_MODE_DISABLED",
           Obj(<< <<"userId", Num(AdminUserId)>> >>), "200")
    /\ UNCHANGED <<requests, plans, approvals, receipts, capabilities>>
    /\ WorldUnchanged /\ UNCHANGED <<nextUuid, tampers, agents, issued, calc, metrics>>

\* ---- PATCH /api/agents/:id/capabilities/:type: storage.upsertCapability
RootToggleCapability(p, w) ==
    /\ CanStart(p)
    /\ Cardinality(EventsOfType("CAPABILITY_TOGGLED")) < MaxCapabilityUpdates
    /\ LET rows == {i \in 1..Len(capabilities) :
                        capabilities[i].agentId = w[1] /\ capabilities[i].type = w[2]}
       IN  capabilities' =
               IF rows # {}
               THEN [capabilities EXCEPT ![CHOOSE i \in rows : TRUE].enabled = w[3]]
               ELSE Append(capabilities,
                           [agentId |-> w[1], type |-> w[2], enabled |-> w[3]])
    /\ RootAudit(p, "toggleCapability", "CAPABILITY_TOGGLED",
           Obj(<< <<"agentId", Num(w[1])>>, <<"type", Str(w[2])>>,
                  <<"enabled", Bool(w[3])>> >>), "200")
    /\ UNCHANGED <<requests, plans, approvals, receipts, settings>>
    /\ WorldUnchanged /\ EnvUnchanged

RootNext ==
    \/ \E call \in ToolCalls : RootCallTool(1, 1, call)
    \/ \E agentId \in Agents, requestId \in 1..MaxRequests :
            RootDryRun(1, agentId, requestId)
    \/ \E planId \in 1..MaxPlans, decision \in Decisions :
            RootApprove(1, planId, decision)
    \/ \E agentId \in Agents, planId \in 1..MaxPlans, outcome \in Outcomes :
            RootExecute(1, agentId, planId, outcome)
    \/ RootSetSafeMode(1, TRUE)
    \/ \E w \in RootCapabilityWrites : RootToggleCapability(1, w)
    \/ Respond(1)

SpecRoot == Init /\ [][RootNext]_vars

\* ================================================================
\* Pure functions, applied to inputs drawn from bounded sets; the store and
\* the handlers stay as they are after set-up.
OnlyCalc ==
    /\ StoreUnchanged /\ WorldUnchanged
    /\ UNCHANGED <<pc, local, nextUuid, tampers, settingUpdates, metrics, agents,
                   issued>>

\* ---- canonicalJson
CanonScalars == {Undefined, Null, Num(1), Str("a"), Bool(TRUE)}

\* Objects whose keys were inserted in an order that is not the sorted one,
\* and arrays.
CanonObjects(V) ==
    {Obj(<<>>)}
    \cup {Obj(<< <<"name", v>> >>) : v \in V}
    \cup {Obj(<< <<"name", v>>, <<"key", w>> >>) : v \in V, w \in V}
CanonArrays(V) ==
    {Arr(<<>>)} \cup {Arr(<<v, w>>) : v \in V, w \in V}

CanonNested ==
    {Undefined, Num(1),
     Obj(<< <<"path", Str("a")>>, <<"content", Undefined>>, <<"args", Null>> >>),
     Arr(<<Undefined, Num(1)>>)}

CanonInputs ==
    CanonScalars \cup CanonObjects(CanonScalars) \cup CanonArrays(CanonScalars)
    \cup CanonObjects(CanonNested) \cup CanonArrays(CanonNested)

\* A copy of a value, made member by member.
RECURSIVE deepCopy(_)
deepCopy(x) ==
    CASE x.t = "array" -> Arr([i \in 1..Len(x.v) |-> deepCopy(x.v[i])])
      [] x.t = "object" ->
            Obj([i \in 1..Len(x.v) |-> <<x.v[i][1], deepCopy(x.v[i][2])>>])
      [] OTHER -> [t |-> x.t, v |-> x.v]

\* A copy whose objects, at every depth, got their keys in the reverse order.
RECURSIVE reverseKeys(_)
reverseKeys(x) ==
    CASE x.t = "array" -> Arr([i \in 1..Len(x.v) |-> reverseKeys(x.v[i])])
      [] x.t = "object" ->
            Obj([i \in 1..Len(x.v) |->
                    <<x.v[Len(x.v) + 1 - i][1],
                      reverseKeys(x.v[Len(x.v) + 1 - i][2])>>])
      [] OTHER -> x

\* A copy whose arrays, at every depth, hold their elements in reverse order.
RECURSIVE reverseElements(_)
reverseElements(x) ==
    CASE x.t = "array" ->
            Arr([i \in 1..Len(x.v) |-> reverseElements(x.v[Len(x.v) + 1 - i])])
      [] x.t = "object" ->
            Obj([i \in 1..Len(x.v) |-> <<x.v[i][1], reverseElements(x.v[i][2])>>])
      [] OTHER -> x

\* A copy with null wherever the value holds undefined.
RECURSIVE nullForUndefined(_)
nullForUndefined(x) ==
    CASE x.t = "array" -> Arr([i \in 1..Len(x.v) |-> nullForUndefined(x.v[i])])
      [] x.t = "object" ->
            Obj([i \in 1..Len(x.v) |-> <<x.v[i][1], nullForUndefined(x.v[i][2])>>])
      [] x.t = "undefined" -> Null
      [] OTHER -> x

Copies == {"deepCopy", "reverseKeys", "reverseElements", "nullForUndefined",
           "JsonRoundTrip"}

CopyOf(how, x) ==
    CASE how = "deepCopy" -> deepCopy(x)
      [] how = "reverseKeys" -> reverseKeys(x)
      [] how = "reverseElements" -> reverseElements(x)
      [] how = "nullForUndefined" -> nullForUndefined(x)
      [] how = "JsonRoundTrip" -> JsonRoundTrip(x)

InitCanon ==
    /\ InitStore
    /\ \E x \in CanonInputs :
          calc = [fn |-> "canonicalJson", how |-> "", in |-> <<x>>, out |-> <<>>]

\* A second value is made from the first.
CanonCopy(how) ==
    /\ calc.fn = "canonicalJson" /\ Len(calc.in) = 1
    /\ calc' = [calc EXCEPT !.how = how, !.in = <<calc.in[1], CopyOf(how, calc.in[1])>>]
    /\ OnlyCalc

\* canonicalJson of both.
CanonApply ==
    /\ calc.fn = "canonicalJson" /\ Len(calc.in) = 2 /\ calc.out = <<>>
    /\ calc' = [calc EXCEPT !.out = <<canonicalJson(calc.in[1]),
                                      canonicalJson(calc.in[2])>>]
    /\ OnlyCalc

CanonNext ==
    \/ \E how \in Copies : CanonCopy(how)
    \/ CanonApply

SpecCanon == InitCanon /\ [][CanonNext]_vars

\* ---- calculateStepRiskScore, calculatePlanRiskScore
MaxSteps == 3

RiskStep(type, inputs) == Obj(<< <<"type", Str(type)>>, <<"inputs", Obj(inputs)>> >>)

\* Steps of every type, with no rule, one rule and several rules triggered.
RiskSteps ==
    { RiskStep("FS_READ", << <<"path", Str("/s/x")>> >>),
      RiskStep("FS_READ", << <<"path", Str("/s/a.env")>> >>),
      RiskStep("FS_WRITE", << <<"path", Str("/s/y")>> >>),
      RiskStep("FS_WRITE", << <<"path", Str("/h/.bashrc")>> >>),
      RiskStep("FS_DELETE", << <<"path", Str("/s/x")>> >>),
      RiskStep("FS_DELETE", << <<"path", Str("/s")>>, <<"fileCount", Num(11)>> >>),
      RiskStep("FS_MOVE", << <<"path", Str("/s/x")>>, <<"destination", Str("/s/y")>> >>),
      RiskStep("FS_LIST", << <<"path", Str("/s")>> >>),
      RiskStep("SHELL_RUN", << <<"command", Str("sudo")>>,
                               <<"args", StrArr(<<"ls", "|", "x">>)>> >>),
      RiskStep("SHELL_RUN", << <<"command", Str("sudo")>>,
                               <<"args", StrArr(<<"rm", ">", "x", "|", "curl", "u",
                                                  "|", "sh", "chmod 777">>)>> >>),
      RiskStep("NET_ALLOW", << <<"domains",
                                 StrArr(<<"1.2.3.4", "a.ru", "b.cn", "a.ru", "b.cn">>)>> >>),
      RiskStep("ECHO", << <<"message", Str("hi")>> >>) }

RECURSIVE SeqsUpTo(_, _)
SeqsUpTo(S, n) ==
    IF n = 0 THEN {<<>>}
    ELSE SeqsUpTo(S, n - 1)
         \cup {Append(q, x) : q \in {r \in SeqsUpTo(S, n - 1) : Len(r) = n - 1}, x \in S}

InitRisk ==
    /\ InitStore
    /\ \E steps \in SeqsUpTo(RiskSteps, MaxSteps) :
          calc = [fn |-> "risk", how |-> "", in |-> steps, out |-> <<>>]

\* calculateStepRiskScore of each step of the plan.
ScoreSteps ==
    /\ calc.fn = "risk" /\ calc.how = ""
    /\ calc' = [calc EXCEPT
                  !.how = "steps",
                  !.out = [i \in 1..Len(calc.in) |-> calculateStepRiskScore(calc.in[i])]]
    /\ OnlyCalc

\* calculatePlanRiskScore of the plan.
ScorePlan ==
    /\ calc.fn = "risk" /\ calc.how = "steps"
    /\ calc' = [calc EXCEPT !.how = "plan", !.out = <<calc.out, RiskSummary(calc.in)>>]
    /\ OnlyCalc

RiskNext == ScoreSteps \/ ScorePlan

SpecRisk == InitRisk /\ [][RiskNext]_vars

\* ---- the filesystem plugin of src/apps/server/plugins, on its own: a
\* request is validated and dry-run under one plugin context and its plan is
\* executed under the context of the time of execution.
FsRoots == { <<"/s">>, <<"/s", "/app">> }
FsParams ==
    { Obj(<< <<"path", Str(path)>> >>) : path \in {"/s/x", "/s/y", "/s/../e/p"} }
FsInputs ==
    { Obj(<< <<"type", Str("filesystem")>>, <<"operation", Str(op)>>,
             <<"params", params>> >>) :
          op \in {"read", "list", "delete", "chmod"}, params \in FsParams }
    \cup { Obj(<< <<"type", Str("filesystem")>>, <<"operation", Str("write")>>,
                  <<"params", Put(params, "content", Str("x"))>> >>) :
              params \in FsParams }
    \cup { Obj(<< <<"type", Str("filesystem")>>, <<"operation", Str("move")>>,
                  <<"params", Obj(<< <<"from", Str("/s/x")>>, <<"to", Str(to)>> >>)>> >>) :
              to \in {"/s/y", "/s/../e/p"} }
    \cup { Obj(<< <<"type", Str("filesystem")>>, <<"operation", Str("write")>>,
                  <<"params", Obj(<< <<"path", Str("/s/x")>> >>)>> >>),
           Obj(<< <<"type", Str("filesystem")>>, <<"operation", Str("read")>> >>) }

FsContext(roots, safeMode) ==
    [allowedRoots |-> roots, shellAllowList |-> <<>>, safeModeEnabled |-> safeMode]

InitFs ==
    /\ InitStore
    /\ \E input \in FsInputs, roots \in FsRoots, safeMode \in BOOLEAN :
          calc = [fn |-> "filesystem", how |-> "", in |-> input,
                  out |-> [ctx |-> FsContext(roots, safeMode)]]

\* validateRequest and dryRun, as the dry-run handler calls them.
FsDryRun ==
    /\ calc.fn = "filesystem" /\ calc.how = ""
    /\ LET validation == root_filesystem_validateRequest(calc.in)
       IN  IF ~validation.valid
           THEN calc' = [calc EXCEPT !.how = "invalid"]
           ELSE LET dry == root_filesystem_dryRun(calc.out.ctx,
                                                  validation.normalizedRequest, "uuid-1")
                IN  IF dry.threw
                    THEN calc' = [calc EXCEPT !.how = "threw"]
                    ELSE calc' = [calc EXCEPT
                                    !.how = "dryRun",
                                    !.out = [ctx |-> calc.out.ctx, steps |-> dry.steps]]
    /\ OnlyCalc

\* execute of the plan, under the safe mode of that time.
FsExecute(safeMode, ioOk) ==
    /\ calc.fn = "filesystem" /\ calc.how = "dryRun"
    /\ LET ctx == FsContext(calc.out.ctx.allowedRoots, safeMode)
           run == root_filesystem_execute(ctx, calc.out.steps, ioOk)
       IN  calc' = [calc EXCEPT
                      !.how = "execute",
                      !.out = [ctx |-> calc.out.ctx, steps |-> calc.out.steps,
                               executeCtx |-> ctx, results |-> run.results,
                               effects |-> run.effects]]
    /\ OnlyCalc

FsNext ==
    \/ FsDryRun
    \/ \E safeMode \in BOOLEAN, ioOk \in BOOLEAN : FsExecute(safeMode, ioOk)

SpecFs == InitFs /\ [][FsNext]_vars

\* ---- registry.ts: PluginRegistryImpl. The Map plugins is the sequence of
\* its entries [key, value] in insertion order; a plugin is its id and its
\* capabilityType.
MaxRegistrations == 4
RegistryTypes == {"filesystem", "shell", "echo"}
RegistryPlugins == [id : {"builtin", "other"}, capabilityType : RegistryTypes]

\* this.plugins.has(key)
Map_has(plugins, key) == \E i \in 1..Len(plugins) : plugins[i].key = key

\* this.plugins.set(key, value): the entry of the key is replaced where it
\* is, a new key is added last.
Map_set(plugins, key, value) ==
    IF Map_has(plugins, key)
    THEN [i \in 1..Len(plugins) |->
             IF plugins[i].key = key THEN [key |-> key, value |-> value]
             ELSE plugins[i]]
    ELSE Append(plugins, [key |-> key, value |-> value])

\* A register that sets the plugin whether or not the type has one.
registerOverwrites(plugins, plugin) ==
    Map_set(plugins, plugin.capabilityType, plugin)

\* register(plugin): a type that has a plugin keeps it.
register(plugins, plugin) ==
    IF Map_has(plugins, plugin.capabilityType) THEN plugins
    ELSE Map_set(plugins, plugin.capabilityType, plugin)

\* getPlugin(type): this.plugins.get(type), undefined for a missing key.
registry_getPlugin(plugins, type) ==
    IF Map_has(plugins, type)
    THEN plugins[CHOOSE i \in 1..Len(plugins) : plugins[i].key = type].value
    ELSE Undefined

InitRegistry ==
    /\ InitStore
    /\ calc = [fn |-> "registry", how |-> "", in |-> <<>>, out |-> <<>>]

\* pluginRegistry.register(plugin); calc.in is the calls made so far and
\* calc.out the Map.
Register(plugin) ==
    /\ calc.fn = "registry"
    /\ Len(calc.in) < MaxRegistrations
    /\ calc' = [calc EXCEPT !.how = "register",
                            !.in = Append(calc.in, plugin),
                            !.out = register(calc.out, plugin)]
    /\ OnlyCalc

RegistryNext == \E plugin \in RegistryPlugins : Register(plugin)

SpecRegistry == InitRegistry /\ [][RegistryNext]_vars

\* ------------------------------------------------------------ properties
\* C1: the effector's execute is called, and a receipt persisted, for a plan
\* only if the handler saw the owning request `approved` and the hash it
\* recomputed from the stored steps equal to the stored planHash.
C1_ExecuteOnlyApprovedAndIntact ==
    /\ \A e \in execLog : e.statusSeen = "approved" /\ e.hashSeen = e.planHash
    /\ \A i \in 1..Len(receipts) : \E e \in execLog : e.planId = receipts[i].planId

\* C1: a plan has been executed and its receipt is in the store.
C1_Witness ==
    \E e \in execLog : \E i \in 1..Len(receipts) : receipts[i].planId = e.planId

\* C2: the steps of plan p are run only if an Approval with decision
\* `approved` exists for that same plan p.
C2_ExecutedPlanIsApprovedPlan ==
    \A e \in execLog :
        \E i \in 1..Len(approvals) :
            approvals[i].planId = e.planId /\ approvals[i].decision = "approved"

\* The edges of pending -> planned -> (approved|rejected) -> (executed|failed).
StatusEdges ==
    { <<"pending", "planned">>, <<"planned", "approved">>, <<"planned", "rejected">>,
      <<"approved", "executed">>, <<"approved", "failed">> }

\* C3: every change of a request's status follows an edge of the life cycle;
\* `rejected` and `failed` are never left and no request moves back.
C3_StatusFollowsLifecycle ==
    [][\A r \in 1..Len(requests) :
          requests'[r].status # requests[r].status
              => <<requests[r].status, requests'[r].status>> \in StatusEdges]_vars

\* C4: the audit events in id order form one chain: the first has prevHash
\* "GENESIS", every other one the eventHash of the event before it.
C4_AuditChainLinked ==
    \A i \in 1..Len(auditEvents) :
        auditEvents[i].prevHash =
            IF i = 1 THEN "GENESIS" ELSE auditEvents[i - 1].eventHash

\* The plan a handler holds is one whose steps were overwritten in the store.
HoldsOverwrittenPlan(p) ==
    /\ local[p].planId \in tampers
    /\ local[p].plan.steps = TamperedSteps(local[p].plan.steps)

\* C5: executePlan on an overwritten plan of an approved request answers with
\* the integrity error and changes nothing: no call of the effector, the
\* request still `approved`, no receipt, no audit event.
C5_OverwrittenPlanRefused ==
    [][\A p \in Procs :
          ( /\ pc[p] = "ex_getRequest" /\ pc'[p] # "ex_getRequest"
            /\ HoldsOverwrittenPlan(p)
            /\ requests[local[p].plan.requestId].agentId = local[p].agentId
            /\ requests[local[p].plan.requestId].status = "approved" )
          => /\ pc'[p] = "respond" /\ local'[p].resp = "400 integrity"
             /\ UNCHANGED <<requests, receipts, auditEvents, execLog, effects, fsys>>]_vars

\* C5: an execute call on an overwritten echo plan (whose hash matched before
\* the overwrite) of an approved request was answered with the integrity error.
C5_Witness ==
    \E p \in Procs : \E planId \in tampers :
        /\ pc[p] = "respond" /\ local[p].h = "execute"
        /\ local[p].resp = "400 integrity"
        /\ requests[plans[planId].requestId].status = "approved"
        /\ Get(requests[plans[planId].requestId].input, "type") = Str("echo")

\* C6: every plan as dryRun persisted it hashes, when read back from the
\* store, to its stored planHash.
C6_StoredPlanHashMatches ==
    \A i \in 1..Len(plans) :
        i \notin tampers
            => computeHash(canonicalJson(plans[i].steps).v) = plans[i].planHash

DestructiveEffects == {"write", "delete", "move", "spawn"}

\* The request of an execute call has an Approval `approved` on one of its plans.
ApprovedBefore(requestId) ==
    \E i \in 1..Len(approvals) :
        /\ approvals[i].decision = "approved"
        /\ plans[approvals[i].planId].requestId = requestId

\* C7: no dryRun writes, deletes or moves a file, spawns a subprocess or
\* calls an effector's execute; that happens only in executePlan, after an
\* admin approval of the request.
C7_DryRunHasNoEffect ==
    /\ [](/\ \A e \in effects : e.kind \in DestructiveEffects => e.by = "execute"
          /\ \A x \in execLog : ApprovedBefore(x.requestId))
    /\ [][\A p \in Procs :
             (pc[p] = "ctx_safe" /\ local[p].h = "dryRun" /\ pc'[p] # "ctx_safe")
                 => fsys' = fsys /\ execLog' = execLog]_vars

\* C7: a dryRun planned a write (reading the file for the diff) and the file
\* was written by the execute of the plan.
C7_Witness ==
    /\ \E e \in effects : e.by = "execute" /\ e.kind = "write"
    /\ \E i \in 1..Len(plans) :
          \E j \in 1..Len(plans[i].steps.v) :
              Get(plans[i].steps.v[j], "type") = Str("FS_WRITE")

\* The request is a filesystem read of a path outside the allowed roots.
IsDeniedRead(input) ==
    /\ Get(input, "type") = Str("filesystem")
    /\ Get(Get(input, "params"), "operation") = Str("read")
    /\ Get(Get(input, "params"), "path").t = "string"
    /\ ~isPathAllowed(Get(Get(input, "params"), "path").v,
                      ContextRoots(settings.allowed_roots))

\* C8: the execute of a plan for a read outside allowed_roots never reads
\* the file: every step result is `failed` or `blocked`.
C8_DeniedReadNeverSucceeds ==
    \A x \in execLog :
        IsDeniedRead(requests[x.requestId].input)
            => /\ \A i \in 1..Len(x.results) :
                     x.results[i].status \in {"failed", "blocked"}
               /\ \A e \in x.effects : e.kind # "read"

HasFlag(step, flag) ==
    \E k \in 1..Len(Get(step, "riskFlags").v) : Get(step, "riskFlags").v[k] = Str(flag)

\* C9: every filesystem step of a persisted plan has its path under an
\* allowed root or carries the flag `path_denied`.
C9_StepAllowedOrFlagged ==
    \A i \in 1..Len(plans) :
        (i \notin tampers
         /\ Get(requests[plans[i].requestId].input, "type") = Str("filesystem"))
        => \A j \in 1..Len(plans[i].steps.v) :
              \/ HasFlag(plans[i].steps.v[j], "path_denied")
              \/ /\ Get(Get(plans[i].steps.v[j], "inputs"), "path").t = "string"
                 /\ isPathAllowed(Get(Get(plans[i].steps.v[j], "inputs"), "path").v,
                                  ContextRoots(settings.allowed_roots))

\* C10: the shell effector's execute spawns a command only if the full
\* command matches a pattern of the allowlist it runs under.
C10_SpawnOnlyAllowlisted ==
    \A x \in execLog :
        \A e \in x.effects :
            e.kind = "spawn" => shell_isAllowed(x.ctx.shellAllowList, e.target)

\* The step is a filesystem step whose operation writes, deletes or moves.
IsDestructiveStep(step) ==
    /\ Get(step, "type").t = "string"
    /\ Get(step, "type").v \in {"FS_WRITE", "FS_DELETE", "FS_MOVE"}

\* The result execute pushed for the step, by stepId.
ResultsOf(x, step) ==
    {x.results[i] : i \in {k \in 1..Len(x.results) :
                              x.results[k].stepId = Get(step, "stepId").v}}

\* C11: when executePlan built its context with safe mode on, every write,
\* delete and move step of the plan has the result `blocked`, the call made
\* no write, delete or move, and it left the filesystem as it was.
C11_SafeModeBlocksDestructive ==
    /\ [](\A x \in execLog :
             x.ctx.safeModeEnabled
                 => /\ \A j \in 1..Len(x.steps) :
                          IsDestructiveStep(x.steps[j])
                              => /\ ResultsOf(x, x.steps[j]) # {}
                                 /\ \A r \in ResultsOf(x, x.steps[j]) :
                                        r.status = "blocked"
                    /\ \A e \in x.effects : e.kind \notin {"write", "delete", "move"})
    /\ [][\A p \in Procs :
             ( /\ pc[p] = "ctx_safe" /\ local[p].h = "execute" /\ pc'[p] # "ctx_safe"
               /\ ContextSafeMode(settings.safe_mode) )
                 => fsys' = fsys]_vars

\* C11: a write planned and approved was executed under safe mode and blocked.
C11_Witness ==
    \E x \in execLog :
        /\ x.ctx.safeModeEnabled
        /\ \E j \in 1..Len(x.steps) :
              /\ Get(x.steps[j], "type") = Str("FS_WRITE")
              /\ \E r \in ResultsOf(x, x.steps[j]) : r.status = "blocked"

\* The command of a step is one of the read-only baseline, by its basename.
InBaseline(step) ==
    \E c \in SAFE_MODE_READONLY_COMMANDS :
        Chars(c) = baseCmdOf(Get(Get(step, "inputs"), "command").v)

\* The execution x spawned the command of the step.
Spawned(x, step) ==
    \E e \in x.effects :
        e.kind = "spawn" /\ e.target = fullCommandOf(Get(step, "inputs"))

\* C12: when execute built its context with safe mode on, the shell plugin
\* spawned a process only for SHELL_RUN steps whose command basename is one of
\* ls, cat, head, tail, echo, pwd, whoami, date; every other SHELL_RUN step
\* has the result `blocked` and no process was spawned for it.
C12_SafeModeShellBaseline ==
    \A x \in execLog :
        x.ctx.safeModeEnabled
            => \A j \in 1..Len(x.steps) :
                  Get(x.steps[j], "type") = Str("SHELL_RUN")
                      => /\ Spawned(x, x.steps[j]) => InBaseline(x.steps[j])
                         /\ ~InBaseline(x.steps[j])
                                => /\ ~Spawned(x, x.steps[j])
                                   /\ ResultsOf(x, x.steps[j]) # {}
                                   /\ \A r \in ResultsOf(x, x.steps[j]) :
                                          r.status = "blocked"

\* C12: a command the allowlist lets through, with a basename outside the
\* baseline, was executed under safe mode and blocked by it.
C12_Witness ==
    \E x \in execLog :
        /\ x.ctx.safeModeEnabled
        /\ \E j \in 1..Len(x.steps) :
              /\ Get(Get(x.steps[j], "inputs"), "command") = Str("ls/rm")
              /\ isCommandAllowed(fullCommandOf(Get(x.steps[j], "inputs")),
                                  x.ctx.shellAllowList)
              /\ \E r \in ResultsOf(x, x.steps[j]) : r.status = "blocked"
              /\ ~Spawned(x, x.steps[j])

\* C12 (its other half): a baseline command was spawned under safe mode.
BaselineSpawnedInSafeMode ==
    \E x \in execLog :
        /\ x.ctx.safeModeEnabled
        /\ \E j \in 1..Len(x.steps) :
              InBaseline(x.steps[j]) /\ Spawned(x, x.steps[j])

\* An enabled capability row for (agentId, type) is in the store.
HasEnabledCapability(agentId, type) ==
    \E i \in 1..Len(capabilities) :
        /\ capabilities[i].agentId = agentId
        /\ capabilities[i].type = type
        /\ capabilities[i].enabled

\* C13: a createRequest of agent a for a served type t without an enabled
\* capability row for (a, t) is answered 403 and persists nothing; a request
\* row is only ever inserted by a createRequest handler whose agent has an
\* enabled row for the type.
C13_DefaultDeny ==
    [][/\ \A p \in Procs, a \in Agents, action \in Actions :
            ( /\ pc[p] = "idle" /\ local'[p].h = "createRequest"
              /\ CreateRequestStart(p, a, action)
              /\ Get(action, "type").v \in PluginTypes
              /\ ~HasEnabledCapability(a, Get(action, "type").v) )
            => /\ pc'[p] = "respond" /\ local'[p].resp = "403"
               /\ UNCHANGED <<requests, auditEvents>>
       /\ Len(requests') > Len(requests)
            => \E p \in Procs :
                  /\ pc[p] = "cr_insert"
                  /\ HasEnabledCapability(local[p].agentId,
                                          Get(local[p].action, "type").v)
                  /\ requests'[Len(requests')].agentId = local[p].agentId
                  /\ Get(requests'[Len(requests')].input, "type")
                        = Get(local[p].action, "type")]_vars

\* C13: one request was persisted, the capability of its agent was then
\* disabled, and a createRequest was answered 403.
C13_Witness ==
    /\ Len(requests) = 1
    /\ ~HasEnabledCapability(requests[1].agentId, Get(requests[1].input, "type").v)
    /\ \E p \in Procs :
          pc[p] = "respond" /\ local[p].h = "createRequest" /\ local[p].resp = "403"

\* C14: the effector runs a plan only while the owning agent's capability for
\* the request's type is enabled.
C14_ExecuteRechecksCapability ==
    \A x \in execLog : x.capEnabled

\* C15: a dryRun by an agent that does not own the request is answered 404,
\* an executePlan by an agent that does not own the plan's request 403, and
\* neither creates a plan or a receipt, changes a request or appends an audit
\* event; the effector only ever ran for the owner.
C15_OnlyOwnerPlansAndExecutes ==
    /\ [](\A x \in execLog : requests[x.requestId].agentId = x.agentId)
    /\ [][/\ \A p \in Procs, a \in Agents, r \in 1..MaxRequests :
               ( /\ DryRunStart(p, a, r)
                 /\ r <= Len(requests)
                 /\ requests[r].agentId # a )
               => /\ pc'[p] = "respond" /\ local'[p].resp = "404"
                  /\ UNCHANGED <<requests, plans, receipts, auditEvents>>
          /\ \A p \in Procs :
               ( /\ pc[p] = "ex_getRequest" /\ pc'[p] # "ex_getRequest"
                 /\ requests[local[p].plan.requestId].agentId # local[p].agentId )
               => /\ pc'[p] = "respond" /\ local'[p].resp = "403"
                  /\ UNCHANGED <<requests, plans, receipts, auditEvents,
                                 execLog, effects, fsys>>
          /\ \A p \in Procs :
               (pc[p] = "respond" /\ pc'[p] # "respond")
                   => UNCHANGED <<requests, plans, receipts, auditEvents,
                                  execLog, effects, fsys>>]_vars

\* C15: an executePlan by an agent that does not own the plan was refused.
C15_Witness ==
    \E p \in Procs :
        /\ pc[p] = "respond" /\ local[p].h = "execute" /\ local[p].resp = "403"
        /\ Len(plans) > 0

\* The audit event of each handler that writes a request status.
LifecycleEvents ==
    [createRequest |-> "REQUEST_CREATED", dryRun |-> "DRY_RUN_COMPLETE",
     approve |-> "PLAN_DECISION", execute |-> "PLAN_EXECUTED"]

\* Handlers that wrote a status and have not yet appended their event.
AuditPending(eventType) ==
    Cardinality({p \in Procs : /\ pc[p] \in {"au_read", "au_insert"}
                               /\ local[p].evType = eventType})

At(label) == Cardinality({p \in Procs : pc[p] = label})

\* The status writes so far, by handler: each handler writes the status once,
\* after the one row it inserts.
StatusWrites ==
    [createRequest |-> Len(requests),
     dryRun |-> Len(plans) - At("dr_status"),
     approve |-> Len(approvals) - At("ap_status"),
     execute |-> Len(receipts) - At("ex_status")]

\* C16: every write of a request status hands over to createAuditEvent with
\* the event of its handler, createAuditEvent appends exactly that one event,
\* and the events of each type are as many as the status writes of its
\* handler (counting the events whose append is in progress).
C16_OneAuditEventPerTransition ==
    /\ [](\A h \in DOMAIN LifecycleEvents :
             Cardinality(EventsOfType(LifecycleEvents[h]))
                 + AuditPending(LifecycleEvents[h]) = StatusWrites[h])
    /\ [][/\ requests' # requests
               => \E p \in Procs :
                     /\ local[p].h \in DOMAIN LifecycleEvents
                     /\ pc'[p] = "au_read"
                     /\ local'[p].evType = LifecycleEvents[local[p].h]
          /\ \A p \in Procs :
               /\ pc[p] = "au_read" => pc'[p] \in {"au_read", "au_insert"}
               /\ (pc[p] = "au_insert" /\ pc'[p] # "au_insert")
                    => /\ Len(auditEvents') = Len(auditEvents) + 1
                       /\ auditEvents'[Len(auditEvents')].eventType = local[p].evType
          /\ Len(auditEvents') # Len(auditEvents)
               => \E p \in Procs : pc[p] = "au_insert"]_vars

\* C16: a request went through all four transitions and each left its event.
C16_Witness ==
    /\ \E r \in 1..Len(requests) : requests[r].status = "executed"
    /\ \A h \in DOMAIN LifecycleEvents : EventsOfType(LifecycleEvents[h]) # {}

\* The executions a step adds to the log.
NewExecutions == execLog' \ execLog

\* The step persisted a failure receipt for plan planId.
FailureReceiptAdded(planId) ==
    /\ Len(receipts') = Len(receipts) + 1
    /\ receipts'[Len(receipts')].planId = planId
    /\ receipts'[Len(receipts')].status = "failure"

\* The step appended a PLAN_EXECUTED event with failure status for planId.
FailureEventAdded(planId) ==
    /\ Len(auditEvents') = Len(auditEvents) + 1
    /\ LET ev == auditEvents'[Len(auditEvents')]
       IN  /\ ev.eventType = "PLAN_EXECUTED"
           /\ Get(Get(ev.data, "data"), "planId") = Num(planId)
           /\ Get(Get(ev.data, "data"), "status") = Str("failure")

\* C17: when the plugin's execute throws, the execute handler persists a
\* receipt with status `failure`, sets the request to `failed` and appends a
\* PLAN_EXECUTED audit event with failure status.
C17_ThrowIsRecordedAndAudited ==
    [][\A x \in NewExecutions :
          x.threw => /\ FailureReceiptAdded(x.planId)
                     /\ requests'[x.requestId].status = "failed"
                     /\ FailureEventAdded(x.planId)]_vars

\* C17 (the part the handler does): the receipt and the `failed` status.
ThrowIsRecorded ==
    [][\A x \in NewExecutions :
          x.threw => /\ FailureReceiptAdded(x.planId)
                     /\ requests'[x.requestId].status = "failed"]_vars

\* An execution in which the plugin's execute threw.
SomeExecuteThrew == \E x \in execLog : x.threw

\* C18: a createRequest refused for an unserved type, a capability that is
\* not enabled or invalid parameters, and an executePlan refused because the
\* request is not `approved`, answer with an error and leave requests, plans,
\* approvals, receipts and the audit log as they were.
C18_RejectionsMutateNothing ==
    [][/\ \A p \in Procs, a \in Agents, action \in Actions :
            ( /\ pc[p] = "idle" /\ local'[p].h = "createRequest"
              /\ CreateRequestStart(p, a, action)
              /\ \/ getPlugin(Get(action, "type").v) = "none"
                 \/ ~HasEnabledCapability(a, Get(action, "type").v)
                 \/ ~plugin_validateRequest(getPlugin(Get(action, "type").v),
                                            Get(action, "params")).valid )
            => /\ pc'[p] = "respond" /\ local'[p].resp \in {"400", "403"}
               /\ UNCHANGED <<requests, plans, approvals, receipts, auditEvents>>
       /\ \A p \in Procs :
            ( /\ pc[p] = "ex_getRequest" /\ pc'[p] # "ex_getRequest"
              /\ requests[local[p].plan.requestId].status # "approved" )
            => /\ pc'[p] = "respond" /\ local'[p].resp \in {"400", "403"}
               /\ UNCHANGED <<requests, plans, approvals, receipts, auditEvents,
                              execLog, effects, fsys>>
       /\ \A p \in Procs :
            (pc[p] = "respond" /\ pc'[p] # "respond")
                => UNCHANGED <<requests, plans, approvals, receipts, auditEvents>>]_vars

\* C18: an executePlan by the owner on a request that is not `approved` was
\* answered 400.
C18_Witness ==
    \E p \in Procs :
        /\ pc[p] = "respond" /\ local[p].h = "execute" /\ local[p].resp = "400"
        /\ \A r \in 1..Len(requests) : requests[r].status # "approved"

\* C19: no Approval is persisted for a plan whose request is already
\* `approved` or `rejected`, and an approvePlan never writes the status of
\* such a request.
C19_DecidedRequestNotDecidedAgain ==
    [][\A p \in Procs :
          ( /\ pc[p] \in {"ap_createApproval", "ap_status"} /\ pc'[p] # pc[p]
            /\ requests[local[p].id].status \in {"approved", "rejected"} )
          => approvals' = approvals /\ requests' = requests]_vars

\* C20: the effector runs a plan only if it is the most recently created plan
\* of its request.
C20_OnlyLatestPlanExecuted ==
    \A x \in execLog : x.planId = x.latestPlanId

\* The hash an auditor computes from a stored event: sha256 of the stored
\* prevHash followed by the canonical JSON of the stored payload.
RecomputedHash(ev) == computeHash(ev.prevHash \o canonicalJson(ev.data).v)

\* C24: every stored audit event, of every type the handlers emit, has
\* eventHash = sha256Hex(prevHash + canonicalJSON(data)) for its stored
\* payload data = {eventType, data, timestamp}.
C24_EveryEventVerifies ==
    \A i \in 1..Len(auditEvents) :
        auditEvents[i].eventHash = RecomputedHash(auditEvents[i])

\* C24: the log holds an event of each step of the lifecycle, written by the
\* handlers, next to those of the admin's login and set-up.
C24_Witness ==
    \A t \in {"ADMIN_LOGIN", "AGENT_CREATED", "CAPABILITY_UPDATED",
              "REQUEST_CREATED", "DRY_RUN_COMPLETE", "PLAN_DECISION",
              "PLAN_EXECUTED"} : EventsOfType(t) # {}

\* C25: the stored audit events only grow: every step leaves the events
\* already stored where they are, with their prevHash, eventHash, eventType
\* and data, and at most appends to them.
C25_AuditLogAppendOnly ==
    [][/\ Len(auditEvents') >= Len(auditEvents)
       /\ SubSeq(auditEvents', 1, Len(auditEvents)) = auditEvents]_vars

\* C25: two handlers have appended their events to a log that held others.
C25_Witness ==
    /\ Len(auditEvents) >= Len(SeedEvents) + 2
    /\ SubSeq(auditEvents, 1, Len(SeedEvents)) = SeedEvents

\* The receipts persisted for the plan of an execution.
ReceiptsOf(x) ==
    {receipts[i] : i \in {k \in 1..Len(receipts) : receipts[k].planId = x.planId}}

\* every r.status == "success"
AllSuccess(results) == \A i \in 1..Len(results) : results[i].status = "success"

\* C29: after an execute that ran the plugin, the persisted receipt has
\* status `success` exactly when every step result has status `success`; a
\* plan with a `failed` or `blocked` step result has no `success` receipt.
C29_ReceiptSuccessIffAllSuccess ==
    \A x \in execLog :
        ~x.threw => \A r \in ReceiptsOf(x) :
                        (r.status = "success") <=> AllSuccess(x.results)

\* An execution that ran the plugin and has its receipt.
SomeReceiptOfRun == \E x \in execLog : ~x.threw /\ ReceiptsOf(x) # {}

\* A resolved path lies under one of the allowed roots of the settings.
UnderAllowedRoots(cs) ==
    \E i \in 1..Len(ContextRoots(settings.allowed_roots)) :
        startsWith(cs, resolve(ContextRoots(settings.allowed_roots)[i]))

\* C30: a stored plan has an FS_MOVE step only when the source and the
\* destination of the move both resolve under allowed_roots, and execute
\* never renames a file to a destination outside allowed_roots.
C30_MoveStaysUnderAllowedRoots ==
    /\ \A i \in 1..Len(plans) : \A j \in 1..Len(plans[i].steps.v) :
          Get(plans[i].steps.v[j], "type") = Str("FS_MOVE")
              => /\ UnderAllowedRoots(
                        resolve(Get(Get(plans[i].steps.v[j], "inputs"), "path").v))
                 /\ UnderAllowedRoots(
                        resolve(Get(Get(plans[i].steps.v[j], "inputs"),
                                    "destination").v))
    /\ \A e \in effects : e.kind = "move" => UnderAllowedRoots(e.target)

\* A file was renamed by execute.
SomeMoveDone == \E e \in effects : e.kind = "move"

\* C26: no two rows of the agents table share a name, whatever createAgent
\* calls ran and however they interleaved: a call for a name that is present
\* adds no row, and of two concurrent calls with one name at most one adds a
\* row.
C26_AgentNamesUnique ==
    \A i, j \in 1..Len(agents) : agents[i].name = agents[j].name => i = j

\* C26: two createAgent calls for the name "c" both found no agent of that
\* name; one inserted its row and the INSERT of the other was rejected.
C26_Witness ==
    /\ storage_getAgentByName(agents, "c") # 0
    /\ \E p \in Procs : /\ pc[p] = "respond"
                        /\ local[p].h = "createAgent"
                        /\ local[p].name = "c"
                        /\ local[p].resp = "400"

\* C27: the agent_capabilities table holds at most one row per (agentId,
\* type), after any sequence and interleaving of capability updates.
C27_OneRowPerAgentAndType ==
    \A i, j \in 1..Len(capabilities) :
        (/\ capabilities[i].agentId = capabilities[j].agentId
         /\ capabilities[i].type = capabilities[j].type) => i = j

\* The flag createRequest reads for (agent 2, echo) is not the one the admin
\* wrote last.
StaleCapabilityRead ==
    \E i, j \in 1..Len(capabilities) :
        /\ i < j
        /\ capabilities[i].agentId = 2 /\ capabilities[j].agentId = 2
        /\ capabilities[i].type = "echo" /\ capabilities[j].type = "echo"
        /\ FindCapability(2, "echo").enabled # capabilities[j].enabled

\* The step at which a lockdown handler completes: its EMERGENCY_LOCKDOWN
\* event is appended.
LockdownCompletes(p) ==
    /\ pc[p] = "au_insert"
    /\ local[p].evType = "EMERGENCY_LOCKDOWN"
    /\ pc'[p] = "respond"

\* C21: when a lockdown handler completes, no key generated by createAgent
\* or rotate-key authenticates as any agent in the store: every agent
\* present has had its apiKeyHash replaced by the lockdown, also when
\* createAgent and rotate-key calls ran concurrently.
C21_LockdownRevokesEveryKey ==
    [][\A p \in Procs :
          LockdownCompletes(p)
              => \A i \in 1..Len(issued') :
                     issued'[i].by # "lockdown"
                         => authenticateAgent(agents', issued'[i].apiKey) = 0]_vars

\* A lockdown has completed.
SomeLockdownDone == EventsOfType("EMERGENCY_LOCKDOWN") # {}

\* C22: when a lockdown handler completes (its EMERGENCY_LOCKDOWN event is
\* appended), the safe_mode setting is true, also when safe-mode changes and
\* setting updates ran concurrently.
C22_SafeModeOnAfterLockdown ==
    [][\A p \in Procs :
          LockdownCompletes(p) => settings'.safe_mode = Bool(TRUE)]_vars

\* A lockdown has completed and safe mode is on.
LockdownDoneSafeModeOn ==
    /\ EventsOfType("EMERGENCY_LOCKDOWN") # {}
    /\ settings.safe_mode = Bool(TRUE)

\* The step in which handler p replaces the apiKeyHash of agent a.
RotatesKeyOf(p, a) ==
    \/ pc[p] = "rk_update" /\ pc'[p] # "rk_update" /\ local[p].id = a
    \/ pc[p] = "ld_rotate" /\ local'[p] # local[p] /\ Head(local[p].agentIds) = a

\* C23: the step of rotate-key that stores the new hash for agent a leaves
\* no key generated for a before it authenticating as any agent, and the
\* key it returns authenticates as a; a key that authenticates as a stops
\* doing so only in a step of a rotation or of a lockdown for a.
C23_RotationReplacesTheKey ==
    [][/\ \A p \in Procs :
             (pc[p] = "rk_update" /\ pc'[p] # "rk_update")
                 => /\ \A i \in 1..Len(issued) :
                           issued[i].agentId = local[p].id
                               => authenticateAgent(agents', issued[i].apiKey) = 0
                    /\ Len(issued') = Len(issued) + 1
                    /\ issued'[Len(issued')].by = "rotateKey"
                    /\ authenticateAgent(agents', issued'[Len(issued')].apiKey)
                           = local[p].id
       /\ \A i \in 1..Len(issued) :
             LET a == authenticateAgent(agents, issued[i].apiKey)
             IN  (a # 0 /\ authenticateAgent(agents', issued[i].apiKey) # a)
                     => \E p \in Procs : RotatesKeyOf(p, a)]_vars

\* C23: a key of agent 1 was rotated, no lockdown ran, and an agent call
\* with a key that had been replaced was refused, while the key the rotation
\* returned authenticates as agent 1.
C23_Witness ==
    /\ EventsOfType("AGENT_KEY_ROTATED") # {}
    /\ EventsOfType("EMERGENCY_LOCKDOWN") = {}
    /\ authenticateAgent(agents, generateApiKey(1)) = 0
    /\ \E i \in 1..Len(issued) :
          /\ issued[i].by = "rotateKey"
          /\ authenticateAgent(agents, issued[i].apiKey) = 1
    /\ \E p \in Procs : /\ pc[p] = "respond"
                        /\ local[p].h = "agentCall"
                        /\ local[p].resp = "401"

\* C28: a call of an admin route (agent creation, key rotation, capability
\* update, setting update, plan approval, safe-mode change, lockdown, the
\* admin reads) with a session that carries no user id is answered 401 and
\* leaves the store, the agents and their keys, and the world as they were.
C28_AdminRoutesRequireSession ==
    [][\A p \in Procs :
          AdminCall(p, NoSession)
              => /\ pc'[p] = "respond"
                 /\ local'[p].resp = "401"
                 /\ UNCHANGED <<requests, plans, approvals, receipts, auditEvents,
                                settings, capabilities, agents, issued, fsys,
                                effects, execLog, metrics>>]_vars

\* C28: a lockdown and an agent creation were asked for without a session;
\* both were refused and nothing was written.
C28_Witness ==
    /\ \E p \in Procs : /\ pc[p] = "respond"
                        /\ local[p].h = "lockdown"
                        /\ local[p].resp = "401"
    /\ \E p \in Procs : /\ pc[p] = "respond"
                        /\ local[p].h = "createAgent"
                        /\ local[p].resp = "401"
    /\ agents = SeedAgents
    /\ settings.safe_mode = Bool(FALSE)
    /\ auditEvents = SeedEvents

\* The cwd of a SHELL_RUN step.
CwdOf(step) == Get(Get(step, "inputs"), "cwd").v

\* C31: a stored plan has a SHELL_RUN step only with a cwd that resolves
\* under allowed_roots, and execute spawns the command of a SHELL_RUN step
\* only with a cwd that resolves under the allowed roots of its context.
C31_ShellCwdUnderAllowedRoots ==
    /\ \A i \in 1..Len(plans) : \A j \in 1..Len(plans[i].steps.v) :
          Get(plans[i].steps.v[j], "type") = Str("SHELL_RUN")
              => isPathAllowed(CwdOf(plans[i].steps.v[j]),
                               ContextRoots(settings.allowed_roots))
    /\ \A x \in execLog : \A j \in 1..Len(x.steps) :
          (Get(x.steps[j], "type") = Str("SHELL_RUN") /\ Spawned(x, x.steps[j]))
              => isPathAllowed(CwdOf(x.steps[j]), x.ctx.allowedRoots)

\* A command was spawned by execute.
SomeCommandSpawned == \E e \in effects : e.kind = "spawn" /\ e.by = "execute"

\* execute spawned a command in a directory outside the allowed roots.
SpawnedOutsideAllowedRoots ==
    \E x \in execLog : \E j \in 1..Len(x.steps) :
        /\ Get(x.steps[j], "type") = Str("SHELL_RUN")
        /\ Spawned(x, x.steps[j])
        /\ ~isPathAllowed(CwdOf(x.steps[j]), x.ctx.allowedRoots)

\* The handlers that write a setting, and the events that record it.
SettingHandlers == {"updateSetting", "setSafeMode", "lockdown"}
SettingEvents == {"SETTING_UPDATED", "SAFE_MODE_CHANGED", "EMERGENCY_LOCKDOWN"}

\* C32: an admin call that changed a setting (PUT settings, safe-mode,
\* lockdown) answers only with its audit event appended: the step that ends
\* the handler with 200 appends a SETTING_UPDATED, SAFE_MODE_CHANGED or
\* EMERGENCY_LOCKDOWN event.
C32_SettingChangesAreAudited ==
    [][\A p \in Procs :
          (/\ pc[p] # "respond" /\ pc'[p] = "respond"
           /\ local'[p].h \in SettingHandlers
           /\ local'[p].resp = "200")
              => /\ Len(auditEvents') = Len(auditEvents) + 1
                 /\ auditEvents'[Len(auditEvents')].eventType \in SettingEvents]_vars

\* safe_mode was changed and the log holds no more than the set-up events.
SafeModeChangedUnaudited ==
    /\ settings.safe_mode # Bool(FALSE)
    /\ auditEvents = SeedEvents
    /\ \A p \in Procs : pc[p] = "idle"

\* canonicalJson was applied to a value and to a copy made in one of the
\* given ways.
Canonicalized(hows) ==
    calc.fn = "canonicalJson" /\ calc.out # <<>> /\ calc.how \in hows

\* C33: canonicalJson of a value equals canonicalJson of its deep copy and
\* of a copy whose object keys were inserted in another order; the order of
\* array elements is kept, so reversing two elements that canonicalize
\* differently changes the result.
C33_CanonicalJsonKeyOrder ==
    /\ Canonicalized({"deepCopy", "reverseKeys"}) => calc.out[1] = calc.out[2]
    /\ (/\ Canonicalized({"reverseElements"})
        /\ calc.in[1].t = "array" /\ Len(calc.in[1].v) = 2
        /\ JoinString(canonicalJson(calc.in[1].v[1]))
               # JoinString(canonicalJson(calc.in[1].v[2])))
           => calc.out[1] # calc.out[2]

\* C33: an object with a nested object, and its copy with the keys of both
\* in another order, were canonicalized.
C33_Witness ==
    /\ Canonicalized({"reverseKeys"})
    /\ calc.in[1] # calc.in[2]
    /\ calc.in[1].t = "object"
    /\ \E i \in 1..Len(calc.in[1].v) :
          calc.in[1].v[i][2].t = "object" /\ Len(calc.in[1].v[i][2].v) > 1

\* C34: canonicalJson gives the literal null for null and for undefined, at
\* top level and inside objects and arrays: a value canonicalizes like its
\* copy with null for every undefined, and like its copy after the store
\* wrote it as JSON and read it back.
C34_NullAndUndefinedAlike ==
    /\ (Canonicalized(Copies) /\ calc.in[1] \in {Null, Undefined})
           => calc.out[1] = Str("null")
    /\ Canonicalized({"nullForUndefined", "JsonRoundTrip"})
           => calc.out[1] = calc.out[2]

\* An object with an undefined field value canonicalizes to another string
\* than its copy after the JSON round trip.
RoundTripChangesCanonicalJson ==
    /\ Canonicalized({"JsonRoundTrip"})
    /\ calc.in[1].t = "object"
    /\ calc.out[1] # calc.out[2]

\* The step scores and the summary of a plan have been computed.
Scored == calc.fn = "risk" /\ calc.how = "plan"

\* C35: every step score is in 0..100, whatever the type of the step and
\* the rules it triggers; the totalRiskScore of any plan is in 0..100 and
\* that of the empty plan is 0.
C35_ScoresWithinRange ==
    Scored => /\ \A i \in 1..Len(calc.out[1]) : calc.out[1][i].score \in 0..100
              /\ calc.out[2].totalRiskScore \in 0..100
              /\ calc.in = <<>> => calc.out[2].totalRiskScore = 0

\* C35: a plan was scored with a shell step that triggers every rule and a
\* network step with five flagged domains, each capped at 100.
C35_Witness ==
    /\ Scored
    /\ \E i, j \in 1..Len(calc.in) :
          /\ Get(calc.in[i], "type") = Str("SHELL_RUN")
          /\ Len(calc.out[1][i].flags) = 6
          /\ calc.out[1][i].score = 100
          /\ Get(calc.in[j], "type") = Str("NET_ALLOW")
          /\ Len(calc.out[1][j].flags) = 5
          /\ calc.out[1][j].score = 100

\* The step scores computed for the plan.
StepScores == [i \in 1..Len(calc.out[1]) |-> calc.out[1][i].score]

\* A flag that adds ten points to the plan is on one of the steps.
SpecialFlag ==
    \E i \in 1..Len(calc.out[1]) : \E j \in 1..Len(calc.out[1][i].flags) :
        calc.out[1][i].flags[j] \in {Str("bulk_delete"), Str("curl_pipe_sh")}

\* t = round(0.6 * max + 0.4 * avg) for the scores ns, rounding halves up:
\* t - 1/2 <= x < t + 1/2 with x = (6 * max * n + 4 * sum) / (10 * n), every
\* term multiplied by 20 * n.
IsRounded(t, ns) ==
    LET n == Len(ns)
        x20n == 2 * (6 * MaxSeq(ns) * n + 4 * SumSeq(ns))
    IN  20 * n * t <= x20n + 10 * n /\ x20n + 10 * n < 20 * n * t + 20 * n

\* C36: for a non-empty plan totalRiskScore is round(0.6 * max step score +
\* 0.4 * average step score), plus 10 when a step has the flag bulk_delete or
\* curl_pipe_sh, clamped to 0..100; high, medium and low count the steps
\* with a score >= 70, in 30..69 and < 30; the scores 5, 55, 95 without
\* such a flag give 78 and one step in each band.
C36_PlanScoreFormula ==
    (Scored /\ calc.in # <<>>)
        => /\ \E t \in 0..100 :
                 /\ IsRounded(t, StepScores)
                 /\ calc.out[2].totalRiskScore
                        = Min(100, Max(0, t + (IF SpecialFlag THEN 10 ELSE 0)))
           /\ calc.out[2].high
                 = Cardinality({i \in 1..Len(StepScores) : StepScores[i] >= 70})
           /\ calc.out[2].medium
                 = Cardinality({i \in 1..Len(StepScores) : StepScores[i] \in 30..69})
           /\ calc.out[2].low
                 = Cardinality({i \in 1..Len(StepScores) : StepScores[i] < 30})
           /\ (\E i, j, k \in 1..3 :
                  /\ Len(StepScores) = 3 /\ {i, j, k} = {1, 2, 3}
                  /\ StepScores[i] = 5 /\ StepScores[j] = 55 /\ StepScores[k] = 95
                  /\ ~SpecialFlag)
                 => /\ calc.out[2].totalRiskScore = 78
                    /\ calc.out[2].high = 1
                    /\ calc.out[2].medium = 1
                    /\ calc.out[2].low = 1

\* C36: a plan with the step scores 5, 55 and 95 and no bulk_delete or
\* curl_pipe_sh flag was scored.
C36_Witness ==
    /\ Scored
    /\ StepScores = <<5, 55, 95>>
    /\ ~SpecialFlag

\* C36 (the ten points): a plan with a bulk delete was scored below the cap.
FlaggedPlanScored ==
    /\ Scored
    /\ SpecialFlag
    /\ calc.out[2].totalRiskScore < 100

\* Handler p calls plugin.execute in this step.
RunsExecute(p) ==
    pc[p] = "ctx_safe" /\ local[p].h = "execute" /\ pc'[p] = "ex_receipt"

\* C37: an approved plan is executed at most once, however execute calls on
\* it interleave: plugin.execute is not called for a plan it was already
\* called for, and at most one receipt is stored per plan.
C37_ExecutedAtMostOnce ==
    [][/\ \A p \in Procs :
             RunsExecute(p) => \A x \in execLog : x.planId # local[p].planId
       /\ \A i, j \in 1..Len(receipts') :
             receipts'[i].planId = receipts'[j].planId => i = j]_vars

\* Two receipts are stored for one plan.
TwoReceiptsForOnePlan ==
    \E i, j \in 1..Len(receipts) : i < j /\ receipts[i].planId = receipts[j].planId

\* The filesystem operations of an effector.
FsKinds == {"read", "write", "delete", "move", "list"}

\* C38: every read, write, delete, move or list that filesystem execute
\* performs targets a path under the allowed roots its handler read for the
\* execution, also when a root was removed after the plan was made.
C38_ExecuteStaysUnderCurrentRoots ==
    \A x \in execLog : \A e \in x.effects :
        e.kind \in FsKinds
            => \E i \in 1..Len(x.ctx.allowedRoots) :
                   startsWith(e.target, resolve(x.ctx.allowedRoots[i]))

\* execute ran with allowed_roots as the admin changed it.
ExecutedUnderChangedRoots ==
    \E x \in execLog : x.ctx.allowedRoots = <<"/app">> /\ x.effects # {}

\* step.riskFlags.includes("blocked_by_safe_mode")
FlaggedBySafeMode(step) ==
    \E j \in 1..Len(Get(step, "riskFlags").v) :
        Get(step, "riskFlags").v[j] = Str("blocked_by_safe_mode")

\* C39: a plan made under safe mode has the flag blocked_by_safe_mode on
\* exactly its write, delete and move steps, and execute under safe mode
\* blocks exactly the flagged steps.
C39_FlaggedIffDestructiveIffBlocked ==
    calc.fn = "filesystem" /\ calc.how \in {"dryRun", "execute"}
                          /\ calc.out.ctx.safeModeEnabled
        => \A i \in 1..Len(calc.out.steps) :
               /\ FlaggedBySafeMode(calc.out.steps[i])
                     <=> Get(calc.out.steps[i], "type").v
                             \in {"FS_WRITE", "FS_DELETE", "FS_MOVE"}
               /\ calc.how = "execute" /\ calc.out.executeCtx.safeModeEnabled
                     => (FlaggedBySafeMode(calc.out.steps[i])
                             <=> calc.out.results[i].status = "blocked")

\* A read step flagged at dryRun under safe mode is carried out by execute
\* under safe mode.
FlaggedReadExecuted ==
    /\ calc.fn = "filesystem" /\ calc.how = "execute"
    /\ calc.out.ctx.safeModeEnabled /\ calc.out.executeCtx.safeModeEnabled
    /\ \E i \in 1..Len(calc.out.steps) :
          /\ Get(calc.out.steps[i], "type") = Str("FS_READ")
          /\ FlaggedBySafeMode(calc.out.steps[i])
          /\ calc.out.results[i].status = "success"

\* C39, for list, write, delete and move steps only.
FlagsAgreeButForRead ==
    calc.fn = "filesystem" /\ calc.how \in {"dryRun", "execute"}
                          /\ calc.out.ctx.safeModeEnabled
        => \A i \in 1..Len(calc.out.steps) :
               Get(calc.out.steps[i], "type") # Str("FS_READ")
               => /\ FlaggedBySafeMode(calc.out.steps[i])
                        <=> Get(calc.out.steps[i], "type").v
                                \in {"FS_WRITE", "FS_DELETE", "FS_MOVE"}
                  /\ calc.how = "execute" /\ calc.out.executeCtx.safeModeEnabled
                        => (FlaggedBySafeMode(calc.out.steps[i])
                                <=> calc.out.results[i].status = "blocked")

\* The calls of a sequence of register calls that name the type.
CallsFor(calls, type) == {i \in 1..Len(calls) : calls[i].capabilityType = type}

\* C40: after any sequence of register calls getPlugin(t) is the plugin of
\* the first call for t, and undefined for a type no call named.
C40_FirstRegistrationWins ==
    calc.fn = "registry"
        => \A type \in RegistryTypes \cup {"network"} :
               registry_getPlugin(calc.out, type) =
                   IF CallsFor(calc.in, type) = {} THEN Undefined
                   ELSE calc.in[CHOOSE i \in CallsFor(calc.in, type) :
                                   \A j \in CallsFor(calc.in, type) : i <= j]

\* C40: two different plugins were registered for one type, and another
\* type was never registered.
C40_Witness ==
    /\ calc.fn = "registry"
    /\ \E i, j \in 1..Len(calc.in) :
          /\ i < j
          /\ calc.in[i].capabilityType = calc.in[j].capabilityType
          /\ calc.in[i].id # calc.in[j].id
          /\ registry_getPlugin(calc.out, calc.in[i].capabilityType) = calc.in[i]
    /\ \E type \in RegistryTypes : registry_getPlugin(calc.out, type) = Undefined

=============================================================================
